---- MODULE Spec2Model ----
(***************************************************************************)
(* PerformanceMonitor (src/src/utils/performance_monitor.cpp) as a state   *)
(* machine: the atomic metrics store, the latency accumulator behind       *)
(* metrics_mutex_, the start/stop lifecycle and the sampler loop.          *)
(*                                                                         *)
(* Doubles are modelled as integers; the values produced by a division,    *)
(* the stored average and the CPU usage, are exact fractions <<num, den>>. *)
(* Every std::atomic access is one step; statements between two atomic     *)
(* accesses of one thread interleave with the other threads.               *)
(***************************************************************************)
EXTENDS Integers, Sequences, FiniteSets, TLC

\* ------------------------------------------------------------------ bounds
NumThreads == 2
MaxOps == 3
ResetOps == 4
SeqOps == 4
MaxVal == 2
LifeOps == 4
AlertOps == 3
MaxTicks == 1
MaxGauge == 2
SampleOps == 2
SampleTicks == 2
MaxCpuTime == 2
TeardownOps == 4
SustainOps == 4
SustainTicks == 2
RuleOps == 3
MonoOps == 3
SnapOps == 5
GaugeOps == 3
QueryOps == 3
\* calls of recordLatency, resetMetrics and getMetrics in TripleSpec
TripleOps == 3
\* calls of the controller, and ticks, in AgreeSpec
AgreeOps == 5
AgreeTicks == 1
\* calls of the controller in SelfStopSpec
SelfStopOps == 4
\* calls of the controller in StopSpec
StopOps == 4
\* calls of the controller, and ticks, in FrameSpec
FrameOps == 4
FrameTicks == 2

Threads == 1..NumThreads
Values == (-1)..MaxVal
\* Every sampler is spawned by a start() call, and a run has at most LifeOps
\* (or AlertOps) calls.
Samplers == 1..LifeOps
ProviderValues == 0..MaxGauge

\* ------------------------------------------------------------------ fields
\* AtomicPerformanceMetrics, in the order reset() stores to them.
FieldOrder ==
    << "messages_processed", "opportunities_detected", "trades_executed",
       "average_latency_ms", "max_latency_ms", "memory_usage_mb",
       "cpu_usage_percentage" >>

FieldNames == { FieldOrder[i] : i \in 1..Len(FieldOrder) }

CounterOps == { "recordMessageProcessed", "recordOpportunityDetected",
                "recordTradeExecuted" }

GaugeFields == { "memory_usage_mb", "cpu_usage_percentage" }

\* The counter each record<Counter>() is named after.
NamedCounter(op) ==
    CASE op = "recordMessageProcessed" -> "messages_processed"
      [] op = "recordOpportunityDetected" -> "opportunities_detected"
      [] op = "recordTradeExecuted" -> "trades_executed"

\* A copy-and-paste slip: recordTradeExecuted bumps opportunities_detected.
CounterOfPasted(op) ==
    CASE op = "recordMessageProcessed" -> "messages_processed"
      [] op = "recordOpportunityDetected" -> "opportunities_detected"
      [] op = "recordTradeExecuted" -> "opportunities_detected"

\* The atomic each record<Counter>() applies fetch_add(1) to.
CounterOf(op) ==
    CASE op = "recordMessageProcessed" -> "messages_processed"
      [] op = "recordOpportunityDetected" -> "opportunities_detected"
      [] op = "recordTradeExecuted" -> "trades_executed"

\* ------------------------------------------------------------ double values
\* new_sum / count, kept exact.
QuotientOfNext(sum, count) == << sum, count + 1 >>

Quotient(sum, count) == << sum, count >>

ZeroAverage == << 0, 1 >>

RatEq(a, b) == a[1] * b[2] = b[1] * a[2]

\* a = n, a > n for a fraction a with a positive denominator and an integer n
RatIs(a, n) == a[1] = n * a[2]

RatGT(a, n) == a[1] > n * a[2]

\* The value 0 / 0.0 that reset() stores into field f.
ZeroOf(f) == IF f = "average_latency_ms" THEN ZeroAverage ELSE 0

IsZero(f, v) == IF f = "average_latency_ms" THEN RatIs(v, 0) ELSE v = 0

SetMax(S) == CHOOSE m \in S : \A v \in S : v <= m

\* ------------------------------------------------------------------- state
VARIABLES
    metrics_,          \* AtomicPerformanceMetrics: field -> value
    latency_count_,    \* std::atomic<uint64_t>
    latency_sum_,      \* std::atomic<double>
    metrics_mutex_,    \* 0: free, t: held by thread t
    pc,                \* per caller thread: the statement it is at
    loc,               \* per caller thread: arguments and locals
    ops,               \* operations begun so far (bounds the run)
    incCalls,          \* history: per counter op and thread, calls since the counter was zeroed
    lat_log,           \* history: recordLatency calls since the last reset returned
    dirty,             \* history: a recordLatency call overlapped a resetMetrics call
    overlap,           \* history: two recordLatency calls were in progress at once
    resetPre,          \* history: the field values when the running reset began
    resetEpoch,        \* history: number of resetMetrics calls begun
    obs,               \* history: per thread, the reset whose zeroes it has read
    torn,              \* history: a reader saw zeroed, then not yet zeroed fields
    running_,          \* std::atomic<bool>
    monitoring_enabled_,  \* std::atomic<bool>
    monitoring_thread_,   \* std::unique_ptr<std::thread>: 0 (null) or the sampler it owns
    spc,               \* per sampler thread: the statement of monitoringLoop it is at
    sloc,              \* per sampler thread: checkAlerts' kind and current_<kind>
    joinable,          \* per sampler thread: its std::thread object is joinable
    terminated,        \* std::terminate() was called
    callback_,         \* per kind: the std::function registered ("none": empty)
    threshold_,        \* per kind: latency_threshold_ms_, memory_..., cpu_...
    ticks,             \* loop iterations begun so far (bounds the run)
    fired,             \* history: per sampler and kind, callbacks invoked by its checkAlerts
    chkEntry,          \* history: per sampler, rules and values when its checkAlerts began
    lifeHist,          \* history: the start() and stop() calls, in the order they began
    seqLife,           \* history: no two start()/stop() calls have overlapped
    quiesced,          \* history: a stop() has returned and no start() has acted since
    last_cpu_time_,    \* uint64_t: total_time of the last getCurrentCpuUsage call
    dtor,              \* the thread executing ~PerformanceMonitor(), 0 when none is
    destroyed,         \* ~PerformanceMonitor() has completed
    initialized,       \* history: initialize() has been called
    monitoring_interval_ms_, \* the sampler's sleep between two ticks
    qfail,             \* history: per sampler, the collaborator calls that failed in its tick
    cpuHist,           \* history: the samples getCurrentCpuUsage has read, and what it did
    prevTick,          \* history: per sampler, the rules, values and invocations of its previous tick
    lastReg,           \* history: per kind, the last set<Kind>AlertCallback begun and the writes made
    snapHist,          \* history: per thread, the stores seen during its getMetrics() and the values it loaded
    lastSnap,          \* history: snapHist of the getMetrics() call that returned last
    gaugeLog,          \* history: per gauge, the values the last two record<Gauge>Usage calls passed
    lastWithin,        \* history: the last is<Kind>WithinThreshold call and what it returned
    tickLog            \* history: per sampler, the steps its current tick has performed

ext == << last_cpu_time_, dtor, destroyed, initialized, monitoring_interval_ms_, qfail,
         cpuHist, prevTick, lastReg >>

aux == << snapHist, lastSnap, gaugeLog, lastWithin, tickLog >>

life == << running_, monitoring_enabled_, monitoring_thread_, spc, sloc, joinable,
           terminated, callback_, threshold_, ticks, fired, chkEntry, lifeHist,
           seqLife, quiesced, ext >>

vars == << metrics_, latency_count_, latency_sum_, metrics_mutex_, pc, loc, ops,
           incCalls, lat_log, dirty, overlap, resetPre, resetEpoch, obs, torn, life, aux >>

store == << metrics_, latency_count_, latency_sum_, metrics_mutex_ >>

Kinds == << "latency", "memory", "cpu" >>

KindNames == { Kinds[k] : k \in 1..Len(Kinds) }

\* What getAverageLatency / getMemoryUsage / getCpuUsage load.
KindField(kind) ==
    CASE kind = "latency" -> "average_latency_ms"
      [] kind = "memory" -> "memory_usage_mb"
      [] kind = "cpu" -> "cpu_usage_percentage"

NoSamplerLocals == [ k |-> 0, current |-> 0, judged |-> 0 ]

hist == << incCalls, lat_log, dirty, overlap, resetPre, resetEpoch, obs, torn >>

NoLocals == [ x |-> 0, current_max |-> 0, count |-> 0, current_sum |-> 0,
              new_sum |-> 0, i |-> 0 ]

\* No set<Kind>AlertCallback call yet: the members are at their initializers.
NoRule ==
    [ cb |-> "none", thr |-> 0, writes |-> 0, replaced |-> FALSE,
      pairs |-> { << "none", 0 >> } ]

NoSample == [ read |-> "none", idle |-> 0, total |-> 0, elapsed |-> 0 ]

NoCpuHist ==
    [ calls |-> 0, prev |-> NoSample, cur |-> NoSample, base |-> 0, result |-> << 0, 1 >> ]

EmptyLog == [ n |-> 0, sum |-> 0, args |-> {} ]

\* No getMetrics() call: nothing seen, nothing loaded.
NoSnap == [ seen |-> {}, snap |-> << >> ]

NoGaugeWrite == [ written |-> FALSE, v |-> 0, prev |-> 0 ]

NoQuery == [ kind |-> "none", threshold |-> 0, current |-> 0, result |-> FALSE, at |-> 0 ]

\* performance_monitor.hpp line 78: int monitoring_interval_ms_{1000}
DefaultInterval == 1000

\* The interval initialize() is called with: that of the tests' fixture, which
\* differs from the default.
Intervals == { 100 }

\* PerformanceMonitor() = default: every member at its initializer.
Init ==
    /\ metrics_ = [ f \in FieldNames |-> ZeroOf(f) ]
    /\ latency_count_ = 0
    /\ latency_sum_ = 0
    /\ metrics_mutex_ = 0
    /\ pc = [ t \in Threads |-> "idle" ]
    /\ loc = [ t \in Threads |-> NoLocals ]
    /\ ops = 0
    /\ incCalls = [ op \in CounterOps |-> [ t \in Threads |-> 0 ] ]
    /\ lat_log = EmptyLog
    /\ dirty = FALSE
    /\ overlap = FALSE
    /\ resetPre = [ f \in FieldNames |-> ZeroOf(f) ]
    /\ resetEpoch = 0
    /\ obs = [ t \in Threads |-> 0 ]
    /\ torn = FALSE
    /\ running_ = FALSE
    /\ monitoring_enabled_ = FALSE
    /\ monitoring_thread_ = 0
    /\ spc = [ s \in Samplers |-> "unborn" ]
    /\ sloc = [ s \in Samplers |-> NoSamplerLocals ]
    /\ joinable = [ s \in Samplers |-> FALSE ]
    /\ terminated = FALSE
    /\ callback_ = [ kind \in KindNames |-> "none" ]
    /\ threshold_ = [ kind \in KindNames |-> 0 ]
    /\ ticks = 0
    /\ fired = [ s \in Samplers |-> [ kind \in KindNames |-> 0 ] ]
    /\ chkEntry = [ s \in Samplers |-> << >> ]
    /\ lifeHist = << >>
    /\ seqLife = TRUE
    /\ quiesced = FALSE
    /\ last_cpu_time_ = 0
    /\ dtor = 0
    /\ destroyed = FALSE
    /\ initialized = FALSE
    /\ monitoring_interval_ms_ = DefaultInterval
    /\ qfail = [ s \in Samplers |-> {} ]
    /\ cpuHist = NoCpuHist
    /\ prevTick = [ s \in Samplers |-> << >> ]
    /\ lastReg = [ kind \in KindNames |-> NoRule ]
    /\ snapHist = [ t \in Threads |-> NoSnap ]
    /\ lastSnap = NoSnap
    /\ gaugeLog = [ f \in GaugeFields |-> NoGaugeWrite ]
    /\ lastWithin = NoQuery
    /\ tickLog = [ s \in Samplers |-> << >> ]

InRecordLatency(t) ==
    pc[t] \in { "rl_loop", "rl_lock", "rl_count", "rl_load", "rl_store",
                "rl_avg", "rl_unlock" }

InReset(t) ==
    pc[t] \in { "rs_fields", "rs_count", "rs_sum", "rs_log", "rs_unlock" }

\* The fields the running metrics_.reset() has already stored 0 to.
Zeroed ==
    IF \E t \in Threads : InReset(t)
    THEN LET r == CHOOSE t \in Threads : InReset(t)
         IN  { FieldOrder[k] : k \in 1..loc[r].i }
    ELSE {}

\* No member function is entered once the destructor has been.
Begin(t, budget) == pc[t] = "idle" /\ dtor = 0 /\ ops < budget /\ ops' = ops + 1

Goto(t, label) == pc' = [ pc EXCEPT ![t] = label ]

Return(t) == pc' = [ pc EXCEPT ![t] = "idle" ] /\ loc' = [ loc EXCEPT ![t] = NoLocals ]

InGetMetrics(t) == pc[t] \in { "gm_fields", "gm_unlock" }

\* History: a store to metrics_ is seen by every getMetrics() call in progress.
Note ==
    snapHist' = [ t \in Threads |->
                    IF InGetMetrics(t)
                    THEN [ snapHist[t] EXCEPT !.seen = @ \cup { metrics_' } ]
                    ELSE snapHist[t] ]

\* ------------------------------------------------------- counters, gauges
\* An increment by two.
FetchAddTwo(v) == v + 2

\* fetch_add(1, relaxed) on a std::atomic<uint64_t>
FetchAdd(v) == v + 1

\* recordMessageProcessed / recordOpportunityDetected / recordTradeExecuted
RecordCounter(t, op, budget) ==
    /\ Begin(t, budget)
    /\ metrics_' = [ metrics_ EXCEPT ![CounterOf(op)] = FetchAdd(@) ]
    /\ incCalls' = [ incCalls EXCEPT ![op][t] = @ + 1 ]
    /\ Note
    /\ UNCHANGED << life, latency_count_, latency_sum_, metrics_mutex_, pc, loc,
                    lat_log, dirty, overlap, resetPre, resetEpoch, obs, torn,
                    lastSnap, gaugeLog, lastWithin, tickLog >>

\* A gauge that only rises: the store is skipped when the slot holds more.
GaugeStoreMax(old, v) == IF v > old THEN v ELSE old

\* lines 88, 92: <gauge>.store(v, relaxed)
GaugeStore(old, v) == v

\* History of a record<Gauge>Usage(v) call.
GaugeWritten(f, v) ==
    gaugeLog' = [ gaugeLog EXCEPT ![f] = [ written |-> TRUE, v |-> v, prev |-> @.v ] ]

\* recordMemoryUsage / recordCpuUsage: one relaxed store
RecordGauge(t, f, v, budget) ==
    /\ Begin(t, budget)
    /\ metrics_' = [ metrics_ EXCEPT ![f] = GaugeStore(@, v) ]
    /\ GaugeWritten(f, v)
    /\ Note
    /\ UNCHANGED << life, latency_count_, latency_sum_, metrics_mutex_, pc, loc, hist,
                    lastSnap, lastWithin, tickLog >>

\* ------------------------------------------------------------ recordLatency
\* line 72: current_max = max_latency_ms.load()
RL_LoadMax(t, x, budget) ==
    /\ Begin(t, budget)
    /\ Goto(t, "rl_loop")
    /\ loc' = [ loc EXCEPT ![t] = [ NoLocals EXCEPT !.x = x,
                                    !.current_max = metrics_["max_latency_ms"] ] ]
    /\ lat_log' = [ n |-> lat_log.n + 1, sum |-> lat_log.sum + x,
                    args |-> lat_log.args \cup { x } ]
    /\ dirty' = (dirty \/ \E r \in Threads : InReset(r))
    /\ overlap' = (overlap \/ \E r \in Threads : InRecordLatency(r))
    /\ UNCHANGED << aux, life, metrics_, latency_count_, latency_sum_, metrics_mutex_,
                    incCalls, resetPre, resetEpoch, obs, torn >>

\* A loop that stores whatever differs from the slot.
LoopWantsUpdateDiffers(latency_ms, current_max) == latency_ms # current_max

\* line 73: latency_ms > current_max
LoopWantsUpdate(latency_ms, current_max) == latency_ms > current_max

\* lines 73-76: one evaluation of the while condition.  compare_exchange_weak
\* either stores latency_ms (the slot still holds current_max) or reloads
\* current_max from the slot.
RL_Loop(t) ==
    /\ pc[t] = "rl_loop"
    /\ IF LoopWantsUpdate(loc[t].x, loc[t].current_max)
       THEN IF metrics_["max_latency_ms"] = loc[t].current_max
            THEN /\ metrics_' = [ metrics_ EXCEPT !["max_latency_ms"] = loc[t].x ]
                 /\ Goto(t, "rl_lock")
                 /\ loc' = loc
            ELSE /\ loc' = [ loc EXCEPT ![t].current_max = metrics_["max_latency_ms"] ]
                 /\ UNCHANGED << metrics_, pc >>
       ELSE /\ Goto(t, "rl_lock")
            /\ UNCHANGED << metrics_, loc >>
    /\ Note
    /\ UNCHANGED << life, latency_count_, latency_sum_, metrics_mutex_, ops, hist,
                    lastSnap, gaugeLog, lastWithin, tickLog >>

\* compare_exchange_weak may fail although the slot holds current_max: nothing
\* is stored, current_max is reloaded with the same value, the loop repeats.
RL_SpuriousFail(t) ==
    /\ pc[t] = "rl_loop"
    /\ LoopWantsUpdate(loc[t].x, loc[t].current_max)
    /\ metrics_["max_latency_ms"] = loc[t].current_max
    /\ UNCHANGED vars

\* A recordLatency that takes no lock.
MayLockAlways(holder) == TRUE

\* std::lock_guard<std::mutex>: the constructor returns once the mutex is free.
MayLock(holder) == holder = 0

\* line 79
RL_Lock(t) ==
    /\ pc[t] = "rl_lock"
    /\ MayLock(metrics_mutex_)
    /\ metrics_mutex_' = t
    /\ Goto(t, "rl_count")
    /\ UNCHANGED << aux, life, metrics_, latency_count_, latency_sum_, loc, ops, hist >>

\* line 80: count = latency_count_.fetch_add(1) + 1
RL_Count(t) ==
    /\ pc[t] = "rl_count"
    /\ latency_count_' = FetchAdd(latency_count_)
    /\ loc' = [ loc EXCEPT ![t].count = latency_count_ + 1 ]
    /\ Goto(t, "rl_load")
    /\ UNCHANGED << aux, life, metrics_, latency_sum_, metrics_mutex_, ops, hist >>

\* lines 81-82: current_sum = latency_sum_.load(); new_sum = current_sum + latency_ms
RL_LoadSum(t) ==
    /\ pc[t] = "rl_load"
    /\ loc' = [ loc EXCEPT ![t].current_sum = latency_sum_,
                           ![t].new_sum = latency_sum_ + loc[t].x ]
    /\ Goto(t, "rl_store")
    /\ UNCHANGED << aux, life, metrics_, latency_count_, latency_sum_, metrics_mutex_, ops, hist >>

\* line 83: latency_sum_.store(new_sum)
RL_StoreSum(t) ==
    /\ pc[t] = "rl_store"
    /\ latency_sum_' = loc[t].new_sum
    /\ Goto(t, "rl_avg")
    /\ UNCHANGED << aux, life, metrics_, latency_count_, metrics_mutex_, loc, ops, hist >>

\* line 84: average_latency_ms.store(new_sum / count)
RL_StoreAvg(t) ==
    /\ pc[t] = "rl_avg"
    /\ metrics_' = [ metrics_ EXCEPT !["average_latency_ms"] =
                                      Quotient(loc[t].new_sum, loc[t].count) ]
    /\ Goto(t, "rl_unlock")
    /\ Note
    /\ UNCHANGED << life, latency_count_, latency_sum_, metrics_mutex_, loc, ops, hist,
                    lastSnap, gaugeLog, lastWithin, tickLog >>

\* line 85: the lock_guard's destructor; the mutex is released only by its holder
RL_Unlock(t) ==
    /\ pc[t] = "rl_unlock"
    /\ metrics_mutex_' = IF metrics_mutex_ = t THEN 0 ELSE metrics_mutex_
    /\ Return(t)
    /\ UNCHANGED << aux, life, metrics_, latency_count_, latency_sum_, ops, hist >>

RecordLatencyStep(t) ==
    \/ RL_Loop(t)
    \/ RL_SpuriousFail(t)
    \/ RL_Lock(t)
    \/ RL_Count(t)
    \/ RL_LoadSum(t)
    \/ RL_StoreSum(t)
    \/ RL_StoreAvg(t)
    \/ RL_Unlock(t)

\* ------------------------------------------------------------- resetMetrics
\* line 116 with the store left out: the sum survives the reset.
ResetSumKept(sum) == sum

\* line 116: latency_sum_ = 0.0
ResetSum(sum) == 0

\* line 113: the call begins when it owns the mutex
RS_Lock(t, budget) ==
    /\ Begin(t, budget)
    /\ MayLock(metrics_mutex_)
    /\ metrics_mutex_' = t
    /\ Goto(t, "rs_fields")
    /\ resetPre' = metrics_
    /\ resetEpoch' = resetEpoch + 1
    /\ UNCHANGED << aux, life, metrics_, latency_count_, latency_sum_, loc, incCalls,
                    lat_log, dirty, overlap, obs, torn >>

\* line 114, types.hpp 220-228: seven separate atomic stores, in FieldOrder
RS_Field(t) ==
    /\ pc[t] = "rs_fields"
    /\ LET f == FieldOrder[loc[t].i + 1]
       IN  /\ metrics_' = [ metrics_ EXCEPT ![f] = ZeroOf(f) ]
           /\ incCalls' = [ op \in CounterOps |->
                              IF NamedCounter(op) = f
                              THEN [ u \in Threads |-> 0 ] ELSE incCalls[op] ]
    /\ loc' = [ loc EXCEPT ![t].i = @ + 1 ]
    /\ Goto(t, IF loc[t].i + 1 = Len(FieldOrder) THEN "rs_count" ELSE "rs_fields")
    /\ Note
    /\ UNCHANGED << life, latency_count_, latency_sum_, metrics_mutex_, ops,
                    lat_log, dirty, overlap, resetPre, resetEpoch, obs, torn,
                    lastSnap, gaugeLog, lastWithin, tickLog >>

\* line 115: latency_count_ = 0
RS_Count(t) ==
    /\ pc[t] = "rs_count"
    /\ latency_count_' = 0
    /\ Goto(t, "rs_sum")
    /\ UNCHANGED << aux, life, metrics_, latency_sum_, metrics_mutex_, loc, ops, hist >>

\* line 116
RS_Sum(t) ==
    /\ pc[t] = "rs_sum"
    /\ latency_sum_' = ResetSum(latency_sum_)
    /\ Goto(t, "rs_log")
    /\ UNCHANGED << aux, life, metrics_, latency_count_, metrics_mutex_, loc, ops, hist >>

\* line 117: LOG_INFO("Performance metrics reset"), which Logger::info hands to
\* the console and file sinks; the lock_guard of line 113 is still in scope
RS_Log(t) ==
    /\ pc[t] = "rs_log"
    /\ Goto(t, "rs_unlock")
    /\ UNCHANGED << aux, life, store, loc, ops, hist >>

\* resetMetrics() returning with the mutex still locked.
ReleasedByResetNever(holder, t) == holder

\* line 118: the lock_guard's destructor unlocks the mutex its constructor locked
ReleasedByReset(holder, t) == IF holder = t THEN 0 ELSE holder

\* line 118: the lock_guard's destructor
RS_Unlock(t) ==
    /\ pc[t] = "rs_unlock"
    /\ metrics_mutex_' = ReleasedByReset(metrics_mutex_, t)
    /\ Return(t)
    /\ lat_log' = EmptyLog
    /\ dirty' = \E r \in Threads : InRecordLatency(r)
    /\ UNCHANGED << aux, life, metrics_, latency_count_, latency_sum_, ops, incCalls,
                    overlap, resetPre, resetEpoch, obs, torn >>

ResetStep(t) == RS_Field(t) \/ RS_Count(t) \/ RS_Sum(t) \/ RS_Log(t) \/ RS_Unlock(t)

\* ------------------------------------------------------------------ readers
\* History of what thread t learns by loading field f: whether the value is a
\* zero the running reset stored over a non-zero value, or a non-zero value
\* the running reset has yet to store over.
Observe(t, f) ==
    LET inprog == \E r \in Threads : InReset(r)
        v == metrics_[f]
        sawZero == inprog /\ f \in Zeroed /\ ~IsZero(f, resetPre[f]) /\ IsZero(f, v)
        sawOld == inprog /\ f \notin Zeroed /\ ~IsZero(f, v) /\ v = resetPre[f]
    IN  /\ obs' = [ obs EXCEPT ![t] = IF sawZero THEN resetEpoch ELSE @ ]
        /\ torn' = (torn \/ (sawOld /\ obs[t] = resetEpoch))

\* lines 120-146: getMessagesProcessed ... getCpuUsage, one relaxed load
Getter(t, f, budget) ==
    /\ Begin(t, budget)
    /\ Observe(t, f)
    /\ UNCHANGED << aux, life, metrics_, latency_count_, latency_sum_, metrics_mutex_, pc, loc,
                    incCalls, lat_log, dirty, overlap, resetPre, resetEpoch >>

\* A comparison that leaves equality out.
WithinThresholdStrict(kind, current, threshold) ==
    IF kind = "latency"
    THEN current[1] < threshold * current[2]
    ELSE current < threshold

\* lines 149, 153, 157: get<Kind>() <= threshold
WithinThreshold(kind, current, threshold) ==
    IF kind = "latency"
    THEN current[1] <= threshold * current[2]
    ELSE current <= threshold

\* lines 148-158: isLatencyWithinThreshold / isMemoryWithinThreshold /
\* isCpuWithinThreshold, one relaxed load and a comparison
IsWithinThreshold(t, kind, threshold, budget) ==
    /\ Begin(t, budget)
    /\ Observe(t, KindField(kind))
    /\ lastWithin' = [ kind |-> kind, threshold |-> threshold,
                       current |-> metrics_[KindField(kind)],
                       result |-> WithinThreshold(kind, metrics_[KindField(kind)],
                                                  threshold),
                       at |-> ops + 1 ]
    /\ UNCHANGED << life, store, pc, loc, incCalls, lat_log, dirty, overlap, resetPre,
                    resetEpoch, snapHist, lastSnap, gaugeLog, tickLog >>

\* line 96
GM_Lock(t, budget) ==
    /\ Begin(t, budget)
    /\ MayLock(metrics_mutex_)
    /\ metrics_mutex_' = t
    /\ Goto(t, "gm_fields")
    /\ snapHist' = [ snapHist EXCEPT ![t] = [ seen |-> { metrics_ }, snap |-> << >> ] ]
    /\ UNCHANGED << life, metrics_, latency_count_, latency_sum_, loc, hist,
                    lastSnap, gaugeLog, lastWithin, tickLog >>

\* lines 100-106: seven loads, in FieldOrder
GM_Load(t) ==
    /\ pc[t] = "gm_fields"
    /\ Observe(t, FieldOrder[loc[t].i + 1])
    /\ loc' = [ loc EXCEPT ![t].i = @ + 1 ]
    /\ Goto(t, IF loc[t].i + 1 = Len(FieldOrder) THEN "gm_unlock" ELSE "gm_fields")
    /\ snapHist' = [ snapHist EXCEPT ![t].snap =
                                     Append(@, metrics_[FieldOrder[loc[t].i + 1]]) ]
    /\ UNCHANGED << life, metrics_, latency_count_, latency_sum_, metrics_mutex_, ops,
                    incCalls, lat_log, dirty, overlap, resetPre, resetEpoch,
                    lastSnap, gaugeLog, lastWithin, tickLog >>

\* lines 107-110
GM_Unlock(t) ==
    /\ pc[t] = "gm_unlock"
    /\ metrics_mutex_' = IF metrics_mutex_ = t THEN 0 ELSE metrics_mutex_
    /\ Return(t)
    /\ lastSnap' = snapHist[t]
    /\ snapHist' = [ snapHist EXCEPT ![t] = NoSnap ]
    /\ UNCHANGED << life, metrics_, latency_count_, latency_sum_, ops, hist,
                    gaugeLog, lastWithin, tickLog >>

GetMetricsStep(t) == GM_Load(t) \/ GM_Unlock(t)

\* ---------------------------------------------------------------- lifecycle
InStart(t) == pc[t] \in { "st_enable", "st_spawn", "st_assign" }

InStop(t) == pc[t] \in { "sp_disable", "sp_check", "sp_join" }

\* A sampler thread that has been spawned and has not left monitoringLoop.
Live(s) == spc[s] \notin { "unborn", "exited" }

LiveSamplers == { s \in Samplers : Live(s) }

Unborn == { s \in Samplers : spc[s] = "unborn" }

NewSampler == CHOOSE s \in Unborn : \A u \in Unborn : s <= u

\* start() with the early return left out.
StartReturnsEarlyNever(was_running) == FALSE

\* line 33: if (running_.exchange(true)) return;
StartReturnsEarly(was_running) == was_running

\* stop() with the early return left out.
StopProceedsAlways(was_running) == TRUE

\* stop() returning at once, whatever running_ was.
StopProceedsNever(was_running) == FALSE

\* line 45: if (!running_.exchange(false)) return;
StopProceeds(was_running) == was_running

\* lines 33-36: running_.exchange(true); LOG_WARN and return when it was set.
\* A call that will spawn is begun only while the run has a sampler left.
ST_Xchg(t, budget) ==
    /\ ~terminated
    /\ Begin(t, budget)
    /\ ~running_ => Unborn # {}
    /\ running_' = TRUE
    /\ pc' = IF StartReturnsEarly(running_) THEN pc ELSE [ pc EXCEPT ![t] = "st_enable" ]
    /\ lifeHist' = Append(lifeHist, "start")
    /\ seqLife' = (seqLife /\ ~\E u \in Threads : InStart(u) \/ InStop(u))
    /\ quiesced' = FALSE
    /\ UNCHANGED << aux, ext, store, loc, hist, monitoring_enabled_, monitoring_thread_, spc,
                    sloc, joinable, terminated, callback_, threshold_, ticks,
                    fired, chkEntry >>

\* start() leaving monitoring_enabled_ as it finds it.
EnabledByStartKept(was_enabled) == was_enabled

\* line 38: the value start() stores into monitoring_enabled_
EnabledByStart(was_enabled) == TRUE

\* line 38: monitoring_enabled_ = true
ST_Enable(t) ==
    /\ ~terminated
    /\ pc[t] = "st_enable"
    /\ monitoring_enabled_' = EnabledByStart(monitoring_enabled_)
    /\ Goto(t, "st_spawn")
    /\ quiesced' = FALSE
    /\ UNCHANGED << aux, ext, store, loc, ops, hist, running_, monitoring_thread_, spc, sloc,
                    joinable, terminated, callback_, threshold_, ticks, fired,
                    chkEntry, lifeHist, seqLife >>

\* line 39, right-hand side: std::make_unique<std::thread>(...) starts the thread
ST_Spawn(t) ==
    /\ ~terminated
    /\ pc[t] = "st_spawn"
    /\ Unborn # {}
    /\ spc' = [ spc EXCEPT ![NewSampler] = "loop" ]
    /\ joinable' = [ joinable EXCEPT ![NewSampler] = TRUE ]
    /\ loc' = [ loc EXCEPT ![t].i = NewSampler ]
    /\ Goto(t, "st_assign")
    /\ quiesced' = FALSE
    /\ UNCHANGED << aux, ext, store, ops, hist, running_, monitoring_enabled_,
                    monitoring_thread_, sloc, terminated, callback_, threshold_,
                    ticks, fired, chkEntry, lifeHist, seqLife >>

\* lines 39-42: the move assignment destroys the std::thread monitoring_thread_
\* owned; ~thread() on a joinable thread calls std::terminate().
ST_Assign(t) ==
    /\ ~terminated
    /\ pc[t] = "st_assign"
    /\ IF monitoring_thread_ # 0 /\ joinable[monitoring_thread_]
       THEN terminated' = TRUE /\ UNCHANGED monitoring_thread_
       ELSE monitoring_thread_' = loc[t].i /\ UNCHANGED terminated
    /\ Return(t)
    /\ quiesced' = FALSE
    /\ UNCHANGED << aux, ext, store, ops, hist, running_, monitoring_enabled_, spc, sloc,
                    joinable, callback_, threshold_, ticks, fired, chkEntry,
                    lifeHist, seqLife >>

StartStep(t) == ST_Enable(t) \/ ST_Spawn(t) \/ ST_Assign(t)

\* lines 45-47: running_.exchange(false); return when it was clear
StopEntry(t, budget) ==
    /\ ~terminated
    /\ Begin(t, budget)
    /\ running_' = FALSE
    /\ pc' = IF StopProceeds(running_) THEN [ pc EXCEPT ![t] = "sp_disable" ] ELSE pc
    /\ lifeHist' = Append(lifeHist, "stop")
    /\ seqLife' = (seqLife /\ ~\E u \in Threads : InStart(u) \/ InStop(u))
    /\ quiesced' = IF StopProceeds(running_) THEN quiesced ELSE TRUE
    /\ UNCHANGED << aux, store, loc, hist, monitoring_enabled_, monitoring_thread_, spc,
                    sloc, joinable, terminated, callback_, threshold_, ticks,
                    fired, chkEntry >>

\* stop(), called by a thread
SP_Xchg(t, budget) == StopEntry(t, budget) /\ UNCHANGED ext

\* lines 17-19: ~PerformanceMonitor() calls stop()
DT_Xchg(t, budget) ==
    /\ StopEntry(t, budget)
    /\ dtor' = t
    /\ UNCHANGED << last_cpu_time_, destroyed, initialized, monitoring_interval_ms_, qfail, cpuHist, prevTick,
                    lastReg >>

\* line 19: the members are destroyed once stop() has returned;
\* ~unique_ptr<std::thread> deletes the std::thread, whose destructor calls
\* std::terminate() when it is joinable.
DT_Members(t) ==
    /\ ~terminated
    /\ dtor = t
    /\ pc[t] = "idle"
    /\ ~destroyed
    /\ destroyed' = TRUE
    /\ terminated' = (monitoring_thread_ # 0 /\ joinable[monitoring_thread_])
    /\ UNCHANGED << aux, store, pc, loc, ops, hist, running_, monitoring_enabled_,
                    monitoring_thread_, spc, sloc, joinable, callback_, threshold_,
                    ticks, fired, chkEntry, lifeHist, seqLife, quiesced,
                    last_cpu_time_, dtor, initialized, monitoring_interval_ms_, qfail, cpuHist, prevTick,
                    lastReg >>

\* line 49: monitoring_enabled_ = false
SP_Disable(t) ==
    /\ ~terminated
    /\ pc[t] = "sp_disable"
    /\ monitoring_enabled_' = FALSE
    /\ Goto(t, "sp_check")
    /\ UNCHANGED << aux, ext, store, loc, ops, hist, running_, monitoring_thread_, spc, sloc,
                    joinable, terminated, callback_, threshold_, ticks, fired,
                    chkEntry, lifeHist, seqLife, quiesced >>

\* line 51: if (monitoring_thread_ && monitoring_thread_->joinable()); else lines 55-56
SP_Check(t) ==
    /\ ~terminated
    /\ pc[t] = "sp_check"
    /\ IF monitoring_thread_ # 0 /\ joinable[monitoring_thread_]
       THEN /\ loc' = [ loc EXCEPT ![t].i = monitoring_thread_ ]
            /\ Goto(t, "sp_join")
            /\ UNCHANGED quiesced
       ELSE /\ Return(t)
            /\ quiesced' = TRUE
    /\ UNCHANGED << aux, ext, store, ops, hist, running_, monitoring_enabled_,
                    monitoring_thread_, spc, sloc, joinable, terminated, callback_,
                    threshold_, ticks, fired, chkEntry, lifeHist, seqLife >>

\* stop() going on without waiting for the sampler.
JoinReturnsAtOnce(sampler_at) == TRUE

\* line 52: join() returns once the thread's function has returned
JoinReturns(sampler_at) == sampler_at = "exited"

\* lines 52-56: join() returns once the sampler has left monitoringLoop
SP_Join(t) ==
    /\ ~terminated
    /\ pc[t] = "sp_join"
    /\ JoinReturns(spc[loc[t].i])
    /\ joinable' = [ joinable EXCEPT ![loc[t].i] = FALSE ]
    /\ Return(t)
    /\ quiesced' = TRUE
    /\ UNCHANGED << aux, ext, store, ops, hist, running_, monitoring_enabled_,
                    monitoring_thread_, spc, sloc, terminated, callback_,
                    threshold_, ticks, fired, chkEntry, lifeHist, seqLife >>

StopStep(t) == SP_Disable(t) \/ SP_Check(t) \/ SP_Join(t)

\* ------------------------------------------------------------ alert rules
\* What invoking a registered std::function does: it returns, it throws an
\* exception derived from std::exception, or it throws a value of another type.
Callbacks == { "returns", "throws", "throws_other" }

Thresholds == { -1, 0, 1 }

KindIndex(kind) == CHOOSE k \in 1..Len(Kinds) : Kinds[k] = kind

\* A threshold that, once set, is kept by later registrations.
AssignThresholdOnce(old, threshold) == IF old = 0 THEN threshold ELSE old

\* lines 162, 167, 172: the member is assigned, the value it held is gone
AssignThreshold(old, threshold) == threshold

\* lines 161, 166, 171: <kind>_alert_callback_ = callback
SC_Callback(t, kind, cb, thr, budget) ==
    /\ ~terminated
    /\ Begin(t, budget)
    /\ callback_' = [ callback_ EXCEPT ![kind] = cb ]
    /\ loc' = [ loc EXCEPT ![t] = [ NoLocals EXCEPT !.x = thr, !.i = KindIndex(kind) ] ]
    /\ Goto(t, "sc_threshold")
    /\ lastReg' = [ lastReg EXCEPT ![kind] =
                      [ cb |-> cb, thr |-> thr, writes |-> @.writes + 1,
                        replaced |-> (@.writes > 0 /\ @.cb # cb /\ @.thr # thr),
                        pairs |-> @.pairs \cup { << cb, thr >> } ] ]
    /\ UNCHANGED << aux, store, hist, running_, monitoring_enabled_, monitoring_thread_,
                    spc, sloc, joinable, terminated, threshold_, ticks, fired,
                    chkEntry, lifeHist, seqLife, quiesced, last_cpu_time_, dtor,
                    destroyed, initialized, monitoring_interval_ms_, qfail, cpuHist, prevTick >>

\* lines 162, 167, 172: <kind>_threshold_ = threshold
SC_Threshold(t) ==
    /\ ~terminated
    /\ pc[t] = "sc_threshold"
    /\ threshold_' = [ threshold_ EXCEPT ![Kinds[loc[t].i]] = AssignThreshold(@, loc[t].x) ]
    /\ lastReg' = [ lastReg EXCEPT ![Kinds[loc[t].i]].writes = @ + 1 ]
    /\ Return(t)
    /\ UNCHANGED << aux, store, ops, hist, running_, monitoring_enabled_,
                    monitoring_thread_, spc, sloc, joinable, terminated, callback_,
                    ticks, fired, chkEntry, lifeHist, seqLife, quiesced,
                    last_cpu_time_, dtor, destroyed, initialized, monitoring_interval_ms_, qfail, cpuHist,
                    prevTick >>

\* ---------------------------------------------------------- resource usage
\* uint64_t arithmetic wraps; the model keeps 16 of the 64 bits.
WordModulus == 65536

Wrap(n) == n % WordModulus

\* What one getCurrentCpuUsage call finds: /proc/stat does not open ("closed"),
\* its first line does not parse and the fields stay uninitialised
\* ("unparsed"), or it parses ("ok"); idle_time and total_time as computed at
\* lines 238-239; time_diff of lines 242-243.
Reads == { "ok", "closed", "unparsed" }

Sample(read, idle_time, total_time, time_diff) ==
    [ read |-> read, idle |-> idle_time, total |-> total_time, elapsed |-> time_diff ]

\* line 246: total_time - last_cpu_time_
TotalDiff(total_time, last) == Wrap(total_time - last)

\* line 247: idle_time - (last_cpu_time_ - (total_time - idle_time))
IdleDiff(idle_time, total_time, last) ==
    Wrap(idle_time - Wrap(last - Wrap(total_time - idle_time)))

\* line 250: 100.0 * (1.0 - static_cast<double>(idle_diff) / total_diff), exact
CpuUsage(idle_diff, total_diff) == << 100 * (total_diff - idle_diff), total_diff >>

\* lines 222-259: the value returned, and the value last_cpu_time_ is left with
GetCurrentCpuUsage(smp, last) ==
    IF smp.read = "closed"
    THEN [ value |-> << 0, 1 >>, base |-> last ]
    ELSE IF smp.elapsed > 0 /\ last > 0 /\ TotalDiff(smp.total, last) > 0
         THEN [ value |-> CpuUsage(IdleDiff(smp.idle, smp.total, last),
                                   TotalDiff(smp.total, last)),
                base |-> smp.total ]
         ELSE [ value |-> << 0, 1 >>, base |-> smp.total ]

\* The gauge value of a quotient that is a whole number (CpuUsageIsZero).
Whole(q) == q[1] \div q[2]

\* A /proc/stat line that parses, with no idle time.
BusySample == Sample("ok", 0, 1, 1)

\* The two samples of the CPU-usage example: (idle, total) = (100, 1000), (150, 1500).
ExampleSamples == { Sample("ok", 100, 1000, 1), Sample("ok", 150, 1500, 1) }

CpuTimes == 0..MaxCpuTime

\* What a call may find: a parsed line has cumulative times, idle_time within
\* total_time and total_time from 1 up, read in the millisecond of the last
\* read or later; an unparsed line leaves any two words in the fields.
CpuSamples ==
    { smp \in [ read : { "ok" }, idle : CpuTimes, total : CpuTimes \ { 0 }, elapsed : { 0, 1 } ] :
          smp.idle <= smp.total }
        \cup [ read : { "unparsed" }, idle : CpuTimes, total : CpuTimes, elapsed : { 1 } ]
        \cup { Sample("closed", 0, 0, 1) }
        \cup ExampleSamples

\* lines 21-30: initialize(monitoring_interval_ms)
Initialize(t, budget) ==
    /\ ~terminated
    /\ Begin(t, budget)
    /\ last_cpu_time_' = 0
    /\ initialized' = TRUE
    /\ \E ms \in Intervals : monitoring_interval_ms_' = ms
    /\ cpuHist' = NoCpuHist
    /\ UNCHANGED << aux, store, pc, loc, hist, running_, monitoring_enabled_,
                    monitoring_thread_, spc, sloc, joinable, terminated, callback_,
                    threshold_, ticks, fired, chkEntry, lifeHist, seqLife,
                    quiesced, dtor, destroyed, qfail, prevTick, lastReg >>

\* ----------------------------------------------------------- sampler loop
\* The rules and the three kinds' values, as a checkAlerts beginning now finds
\* them, and the writes the setters have made to the rules so far.
RulesAt(m) ==
    [ cb |-> callback_, thr |-> threshold_,
      val |-> [ kind \in KindNames |-> m[KindField(kind)] ],
      writes |-> [ kind \in KindNames |-> lastReg[kind].writes ] ]

\* lines 271, 281, 291: current_<kind> > <kind>_threshold_
Exceeds(kind, current, threshold) ==
    IF kind = "latency" THEN RatGT(current, threshold) ELSE current > threshold

\* line 176: while (monitoring_enabled_)
T_Loop(s, budget) ==
    /\ ~terminated
    /\ spc[s] = "loop"
    /\ monitoring_enabled_ => ticks < budget
    /\ ticks' = IF monitoring_enabled_ THEN ticks + 1 ELSE ticks
    /\ spc' = [ spc EXCEPT ![s] = IF monitoring_enabled_ THEN "mem" ELSE "exited" ]
    /\ tickLog' = [ tickLog EXCEPT ![s] = IF monitoring_enabled_ THEN << >> ELSE @ ]
    /\ UNCHANGED << snapHist, lastSnap, gaugeLog, lastWithin >>
    /\ UNCHANGED << ext, store, pc, loc, ops, hist, running_, monitoring_enabled_,
                    monitoring_thread_, sloc, joinable, terminated, callback_,
                    threshold_, fired, chkEntry, lifeHist, seqLife, quiesced >>

\* line 179: recordMemoryUsage(getCurrentMemoryUsage()), getrusage having
\* filled the struct: v is ru_maxrss / 1024.0
T_Mem(s, v) ==
    /\ ~terminated
    /\ spc[s] = "mem"
    /\ metrics_' = [ metrics_ EXCEPT !["memory_usage_mb"] = GaugeStore(@, v) ]
    /\ GaugeWritten("memory_usage_mb", v)
    /\ Note
    /\ tickLog' = [ tickLog EXCEPT ![s] = Append(@, "memory") ]
    /\ spc' = [ spc EXCEPT ![s] = "cpu" ]
    /\ qfail' = [ qfail EXCEPT ![s] = {} ]
    /\ UNCHANGED << latency_count_, latency_sum_, metrics_mutex_, pc, loc, ops,
                    hist, running_, monitoring_enabled_, monitoring_thread_, sloc,
                    joinable, terminated, callback_, threshold_, ticks, fired,
                    chkEntry, lifeHist, seqLife, quiesced, last_cpu_time_,
                    dtor, destroyed, initialized, monitoring_interval_ms_, cpuHist, prevTick, lastReg,
                    lastSnap, lastWithin >>

\* lines 209-213 when getrusage fails: it returns -1, which is not looked at, and
\* nothing is thrown; the struct is as it was declared, uninitialised, so
\* ru_maxrss / 1024.0 is any value v.
T_MemFails(s, v) ==
    /\ ~terminated
    /\ spc[s] = "mem"
    /\ metrics_' = [ metrics_ EXCEPT !["memory_usage_mb"] = GaugeStore(@, v) ]
    /\ GaugeWritten("memory_usage_mb", v)
    /\ Note
    /\ tickLog' = [ tickLog EXCEPT ![s] = Append(@, "memory") ]
    /\ spc' = [ spc EXCEPT ![s] = "cpu" ]
    /\ qfail' = [ qfail EXCEPT ![s] = { "memory" } ]
    /\ UNCHANGED << latency_count_, latency_sum_, metrics_mutex_, pc, loc, ops,
                    hist, running_, monitoring_enabled_, monitoring_thread_, sloc,
                    joinable, terminated, callback_, threshold_, ticks, fired,
                    chkEntry, lifeHist, seqLife, quiesced, last_cpu_time_,
                    dtor, destroyed, initialized, monitoring_interval_ms_, cpuHist, prevTick, lastReg,
                    lastSnap, lastWithin >>

\* line 180: recordCpuUsage(getCurrentCpuUsage()), reading smp; line 183 enters
\* checkAlerts
T_Cpu(s, smp) ==
    /\ ~terminated
    /\ spc[s] = "cpu"
    /\ LET r == GetCurrentCpuUsage(smp, last_cpu_time_)
       IN  /\ metrics_' = [ metrics_ EXCEPT !["cpu_usage_percentage"] =
                                          GaugeStore(@, Whole(r.value)) ]
           /\ GaugeWritten("cpu_usage_percentage", Whole(r.value))
           /\ last_cpu_time_' = r.base
           /\ cpuHist' = [ calls |-> IF cpuHist.calls < 2 THEN cpuHist.calls + 1 ELSE 2,
                           prev |-> cpuHist.cur, cur |-> smp,
                           base |-> last_cpu_time_, result |-> r.value ]
    /\ qfail' = [ qfail EXCEPT ![s] = IF smp.read = "ok" THEN @ ELSE @ \cup { "cpu" } ]
    /\ spc' = [ spc EXCEPT ![s] = "chk" ]
    /\ sloc' = [ sloc EXCEPT ![s].k = 1 ]
    /\ prevTick' = [ prevTick EXCEPT ![s] =
                       IF chkEntry[s] = << >> THEN << >>
                       ELSE [ rules |-> chkEntry[s], fired |-> fired[s] ] ]
    /\ fired' = [ fired EXCEPT ![s] = [ kind \in KindNames |-> 0 ] ]
    /\ chkEntry' = [ chkEntry EXCEPT ![s] = RulesAt(metrics_') ]
    /\ Note
    /\ tickLog' = [ tickLog EXCEPT ![s] = Append(@, "cpu") ]
    /\ UNCHANGED << latency_count_, latency_sum_, metrics_mutex_, pc, loc, ops,
                    hist, running_, monitoring_enabled_, monitoring_thread_,
                    joinable, terminated, callback_, threshold_, ticks, lifeHist,
                    seqLife, quiesced, dtor, destroyed, initialized, monitoring_interval_ms_, lastReg,
                    lastSnap, lastWithin >>

\* checkAlerts goes on to the next kind, or returns to line 186.
NextKind(s) ==
    IF sloc[s].k < Len(Kinds)
    THEN /\ spc' = [ spc EXCEPT ![s] = "chk" ]
         /\ sloc' = [ sloc EXCEPT ![s] = [ NoSamplerLocals EXCEPT !.k = sloc[s].k + 1 ] ]
    ELSE /\ spc' = [ spc EXCEPT ![s] = "lock" ]
         /\ sloc' = [ sloc EXCEPT ![s] = NoSamplerLocals ]

\* lines 269, 279, 289: if (<kind>_alert_callback_ && <kind>_threshold_ > 0)
CK_Guard(s) ==
    /\ ~terminated
    /\ spc[s] = "chk"
    /\ IF callback_[Kinds[sloc[s].k]] # "none" /\ threshold_[Kinds[sloc[s].k]] > 0
       THEN spc' = [ spc EXCEPT ![s] = "cmp" ] /\ UNCHANGED sloc
       ELSE NextKind(s)
    /\ tickLog' = [ tickLog EXCEPT ![s] = IF sloc[s].k = 1 THEN Append(@, "alerts") ELSE @ ]
    /\ UNCHANGED << snapHist, lastSnap, gaugeLog, lastWithin >>
    /\ UNCHANGED << ext, store, pc, loc, ops, hist, running_, monitoring_enabled_,
                    monitoring_thread_, joinable, terminated, callback_,
                    threshold_, ticks, fired, chkEntry, lifeHist, seqLife,
                    quiesced >>

\* lines 270-271, 280-281, 290-291: load the value, compare with the threshold
CK_Compare(s) ==
    /\ ~terminated
    /\ spc[s] = "cmp"
    /\ LET kind == Kinds[sloc[s].k]
       IN  IF Exceeds(kind, metrics_[KindField(kind)], threshold_[kind])
           THEN /\ spc' = [ spc EXCEPT ![s] = "call" ]
                /\ sloc' = [ sloc EXCEPT ![s].judged = threshold_[kind] ]
           ELSE NextKind(s)
    /\ UNCHANGED << aux, ext, store, pc, loc, ops, hist, running_, monitoring_enabled_,
                    monitoring_thread_, joinable, terminated, callback_,
                    threshold_, ticks, fired, chkEntry, lifeHist, seqLife,
                    quiesced >>

\* lines 272-274, 282-284, 292-294: the callback is invoked; what it throws leaves
\* checkAlerts (which has no handler).  The handler at line 201 takes a
\* std::exception; anything else leaves monitoringLoop, the thread's function,
\* and std::thread calls std::terminate().
CK_Call(s) ==
    /\ ~terminated
    /\ spc[s] = "call"
    /\ fired' = [ fired EXCEPT ![s][Kinds[sloc[s].k]] = @ + 1 ]
    /\ CASE callback_[Kinds[sloc[s].k]] = "returns" ->
               NextKind(s) /\ UNCHANGED terminated
         [] callback_[Kinds[sloc[s].k]] = "throws" ->
               /\ spc' = [ spc EXCEPT ![s] = "catch" ]
               /\ sloc' = [ sloc EXCEPT ![s] = NoSamplerLocals ]
               /\ UNCHANGED terminated
         [] callback_[Kinds[sloc[s].k]] = "stops" ->
               /\ spc' = [ spc EXCEPT ![s] = "cs_xchg" ]
               /\ UNCHANGED << sloc, terminated >>
         [] OTHER ->
               /\ spc' = [ spc EXCEPT ![s] = "exited" ]
               /\ sloc' = [ sloc EXCEPT ![s] = NoSamplerLocals ]
               /\ terminated' = TRUE
    /\ UNCHANGED << aux, ext, store, pc, loc, ops, hist, running_, monitoring_enabled_,
                    monitoring_thread_, joinable, callback_, threshold_, ticks,
                    chkEntry, lifeHist, seqLife, quiesced >>

\* A registered callback that calls stop(), as one that shuts the engine down
\* does (main.cpp 160-188, ArbitrageEngine::shutdown): lines 45-47 executed by
\* the sampler thread inside checkAlerts.
CS_Xchg(s) ==
    /\ ~terminated
    /\ spc[s] = "cs_xchg"
    /\ running_' = FALSE
    /\ IF StopProceeds(running_)
       THEN spc' = [ spc EXCEPT ![s] = "cs_disable" ] /\ UNCHANGED sloc
       ELSE NextKind(s)
    /\ lifeHist' = Append(lifeHist, "stop")
    /\ seqLife' = (seqLife /\ ~\E u \in Threads : InStart(u) \/ InStop(u))
    /\ UNCHANGED << aux, ext, store, pc, loc, ops, hist, monitoring_enabled_,
                    monitoring_thread_, joinable, terminated, callback_, threshold_,
                    ticks, fired, chkEntry, quiesced >>

\* line 49, executed by the sampler thread
CS_Disable(s) ==
    /\ ~terminated
    /\ spc[s] = "cs_disable"
    /\ monitoring_enabled_' = FALSE
    /\ spc' = [ spc EXCEPT ![s] = "cs_join" ]
    /\ UNCHANGED << aux, ext, store, pc, loc, ops, hist, running_, monitoring_thread_,
                    sloc, joinable, terminated, callback_, threshold_, ticks, fired,
                    chkEntry, lifeHist, seqLife, quiesced >>

\* lines 51-56, executed by the sampler thread: when monitoring_thread_ is this
\* very thread, join() throws std::system_error (resource_deadlock_would_occur),
\* which leaves stop(), the callback and checkAlerts for the handler at line
\* 201, and the thread stays joinable; when it is another thread, join() waits
\* for it; when it is unset or not joinable, stop() returns.
CS_Join(s) ==
    /\ ~terminated
    /\ spc[s] = "cs_join"
    /\ IF monitoring_thread_ # 0 /\ joinable[monitoring_thread_]
       THEN IF monitoring_thread_ = s
            THEN /\ spc' = [ spc EXCEPT ![s] = "catch" ]
                 /\ sloc' = [ sloc EXCEPT ![s] = NoSamplerLocals ]
                 /\ UNCHANGED joinable
            ELSE /\ JoinReturns(spc[monitoring_thread_])
                 /\ joinable' = [ joinable EXCEPT ![monitoring_thread_] = FALSE ]
                 /\ NextKind(s)
       ELSE NextKind(s) /\ UNCHANGED joinable
    /\ UNCHANGED << aux, ext, store, pc, loc, ops, hist, running_, monitoring_enabled_,
                    monitoring_thread_, terminated, callback_, threshold_, ticks,
                    fired, chkEntry, lifeHist, seqLife, quiesced >>

\* stop() called by a callback, on the sampler thread
SelfStopStep(s) == CS_Xchg(s) \/ CS_Disable(s) \/ CS_Join(s)

\* lines 201-203: LOG_ERROR, back to the loop condition (the sleep is skipped)
T_Catch(s) ==
    /\ ~terminated
    /\ spc[s] = "catch"
    /\ spc' = [ spc EXCEPT ![s] = "loop" ]
    /\ UNCHANGED << aux, ext, store, pc, loc, ops, hist, running_, monitoring_enabled_,
                    monitoring_thread_, sloc, joinable, terminated, callback_,
                    threshold_, ticks, fired, chkEntry, lifeHist, seqLife,
                    quiesced >>

\* lines 186, 96: getMetrics() takes metrics_mutex_
T_Lock(s) ==
    /\ ~terminated
    /\ spc[s] = "lock"
    /\ MayLock(metrics_mutex_)
    /\ metrics_mutex_' = 0 - s
    /\ spc' = [ spc EXCEPT ![s] = "snap" ]
    /\ UNCHANGED << aux, ext, metrics_, latency_count_, latency_sum_, pc, loc, ops, hist,
                    running_, monitoring_enabled_, monitoring_thread_, sloc,
                    joinable, terminated, callback_, threshold_, ticks, fired,
                    chkEntry, lifeHist, seqLife, quiesced >>

\* lines 100-110, 187-196: the seven loads, the unlock, LOG_PERFORMANCE
T_Snap(s) ==
    /\ ~terminated
    /\ spc[s] = "snap"
    /\ metrics_mutex_' = IF metrics_mutex_ = 0 - s THEN 0 ELSE metrics_mutex_
    /\ spc' = [ spc EXCEPT ![s] = "sleep" ]
    /\ tickLog' = [ tickLog EXCEPT ![s] = Append(@, "status") ]
    /\ UNCHANGED << snapHist, lastSnap, gaugeLog, lastWithin >>
    /\ UNCHANGED << ext, metrics_, latency_count_, latency_sum_, pc, loc, ops, hist,
                    running_, monitoring_enabled_, monitoring_thread_, sloc,
                    joinable, terminated, callback_, threshold_, ticks, fired,
                    chkEntry, lifeHist, seqLife, quiesced >>

\* lines 100-110, 187-196 when LOG_PERFORMANCE fails: Logger::performance
\* (logger.hpp 55-56) hands the call to the sink with no handler of its own, so
\* what the sink throws leaves the try block for the handler at line 201, past
\* the sleep of line 199.
T_SnapLogFails(s) ==
    /\ ~terminated
    /\ spc[s] = "snap"
    /\ metrics_mutex_' = IF metrics_mutex_ = 0 - s THEN 0 ELSE metrics_mutex_
    /\ spc' = [ spc EXCEPT ![s] = "catch" ]
    /\ qfail' = [ qfail EXCEPT ![s] = @ \cup { "log" } ]
    /\ UNCHANGED << aux, metrics_, latency_count_, latency_sum_, pc, loc, ops, hist,
                    running_, monitoring_enabled_, monitoring_thread_, sloc,
                    joinable, terminated, callback_, threshold_, ticks, fired,
                    chkEntry, lifeHist, seqLife, quiesced, last_cpu_time_, dtor,
                    destroyed, initialized, monitoring_interval_ms_, cpuHist, prevTick, lastReg >>

\* lines 201-203 when LOG_ERROR fails too: the exception leaves the handler and
\* monitoringLoop, the thread's function, and std::thread calls std::terminate().
T_CatchLogFails(s) ==
    /\ ~terminated
    /\ spc[s] = "catch"
    /\ spc' = [ spc EXCEPT ![s] = "exited" ]
    /\ terminated' = TRUE
    /\ qfail' = [ qfail EXCEPT ![s] = @ \cup { "log" } ]
    /\ UNCHANGED << aux, store, pc, loc, ops, hist, running_, monitoring_enabled_,
                    monitoring_thread_, sloc, joinable, callback_, threshold_, ticks,
                    fired, chkEntry, lifeHist, seqLife, quiesced, last_cpu_time_,
                    dtor, destroyed, initialized, monitoring_interval_ms_, cpuHist, prevTick, lastReg >>

\* line 199: sleep_for(monitoring_interval_ms_)
T_Sleep(s) ==
    /\ ~terminated
    /\ spc[s] = "sleep"
    /\ spc' = [ spc EXCEPT ![s] = "loop" ]
    /\ tickLog' = [ tickLog EXCEPT ![s] = Append(@, "sleep") ]
    /\ UNCHANGED << snapHist, lastSnap, gaugeLog, lastWithin >>
    /\ UNCHANGED << ext, store, pc, loc, ops, hist, running_, monitoring_enabled_,
                    monitoring_thread_, sloc, joinable, terminated, callback_,
                    threshold_, ticks, fired, chkEntry, lifeHist, seqLife,
                    quiesced >>

\* The statements of a tick that every tick executes, given the readings and
\* the /proc/stat samples it may find and the number of ticks the run may have.
Tick(s, readings, samples, budget) ==
    \/ T_Loop(s, budget)
    \/ \E v \in readings : T_Mem(s, v)
    \/ \E smp \in samples : T_Cpu(s, smp)
    \/ CK_Guard(s)
    \/ T_Lock(s)
    \/ T_Snap(s)
    \/ T_Sleep(s)

\* The statements only a tick with a registered rule reaches.
AlertTick(s) == CK_Compare(s) \/ CK_Call(s) \/ T_Catch(s)

\* ----------------------------------------------------------- specifications
\* A thread begins one of the producers' operations, within the run's budget.
BeginProducer(t, budget) ==
    \/ \E op \in CounterOps : RecordCounter(t, op, budget)
    \/ \E x \in Values : RL_LoadMax(t, x, budget)

BeginGauge(t, budget) ==
    \E f \in GaugeFields, v \in Values : RecordGauge(t, f, v, budget)

BeginReader(t, budget) ==
    \/ \E f \in FieldNames : Getter(t, f, budget)
    \/ GM_Lock(t, budget)

\* Producers on the metrics store, concurrently.
Next == \E t \in Threads : BeginProducer(t, MaxOps) \/ RecordLatencyStep(t)

Spec == Init /\ [][Next]_vars

\* Producers, readers and resetMetrics, concurrently.
ResetNext ==
    \E t \in Threads :
        \/ BeginProducer(t, ResetOps)
        \/ RS_Lock(t, ResetOps)
        \/ BeginReader(t, ResetOps)
        \/ RecordLatencyStep(t)
        \/ ResetStep(t)
        \/ GetMetricsStep(t)

ResetSpec == Init /\ [][ResetNext]_vars

\* One caller, one call after another.
SeqNext ==
    \/ BeginProducer(1, SeqOps)
    \/ BeginGauge(1, SeqOps)
    \/ RS_Lock(1, SeqOps)
    \/ BeginReader(1, SeqOps)
    \/ RecordLatencyStep(1)
    \/ ResetStep(1)
    \/ GetMetricsStep(1)

SeqSpec == Init /\ [][SeqNext]_vars

\* start() and stop() from several threads, and the samplers they spawn.  No rule
\* is registered, so the readings play no part: the provider reads 0 throughout.
LifeNext ==
    \/ \E t \in Threads :
        \/ ST_Xchg(t, LifeOps)
        \/ SP_Xchg(t, LifeOps)
        \/ StartStep(t)
        \/ StopStep(t)
    \/ \E s \in Samplers : Tick(s, { 0 }, { BusySample }, MaxTicks)

LifeSpec == Init /\ [][LifeNext]_vars

\* LifeSpec under fair scheduling: a thread inside start() or stop() goes on
\* when it can, and so does every sampler.
LifeFairSpec ==
    /\ LifeSpec
    /\ \A t \in Threads : WF_vars(StartStep(t) \/ StopStep(t))
    /\ \A s \in Samplers : WF_vars(Tick(s, { 0 }, { BusySample }, MaxTicks))

\* One controller registers rules, records latencies and starts the monitor;
\* the sampler ticks beside it.
AlertNext ==
    \/ \E kind \in KindNames, cb \in Callbacks, thr \in Thresholds :
        SC_Callback(1, kind, cb, thr, AlertOps)
    \/ SC_Threshold(1)
    \/ \E x \in Values : RL_LoadMax(1, x, AlertOps)
    \/ RecordLatencyStep(1)
    \/ ST_Xchg(1, AlertOps)
    \/ StartStep(1)
    \/ \E s \in Samplers : Tick(s, ProviderValues, { BusySample }, MaxTicks) \/ AlertTick(s)

AlertSpec == Init /\ [][AlertNext]_vars

\* initialize(), start() and the sampler, whose resource queries and logging
\* calls succeed or fail.
SampleNext ==
    \/ Initialize(1, SampleOps)
    \/ ST_Xchg(1, SampleOps)
    \/ StartStep(1)
    \/ \E s \in Samplers : Tick(s, ProviderValues, CpuSamples, SampleTicks)
    \/ \E s \in Samplers, v \in ProviderValues : T_MemFails(s, v)
    \/ \E s \in Samplers : T_SnapLogFails(s)
    \/ \E s \in Samplers : T_Catch(s)
    \/ \E s \in Samplers : T_CatchLogFails(s)

SampleSpec == Init /\ [][SampleNext]_vars

\* initialize(), start() and stop() from several threads, then the destructor.
TeardownNext ==
    \/ \E t \in Threads :
        \/ Initialize(t, TeardownOps)
        \/ ST_Xchg(t, TeardownOps)
        \/ SP_Xchg(t, TeardownOps)
        \/ DT_Xchg(t, TeardownOps)
        \/ StartStep(t)
        \/ StopStep(t)
        \/ DT_Members(t)
    \/ \E s \in Samplers : Tick(s, { 0 }, { BusySample }, MaxTicks)

TeardownSpec == Init /\ [][TeardownNext]_vars

\* One controller registers latency and memory rules with threshold 1, records
\* the largest latency and starts the monitor; the sampler reads the largest
\* memory figure in every tick.
SustainNext ==
    \/ \E kind \in { "latency", "memory" }, cb \in { "returns", "throws" } :
        SC_Callback(1, kind, cb, 1, SustainOps)
    \/ SC_Threshold(1)
    \/ RL_LoadMax(1, MaxVal, SustainOps)
    \/ RecordLatencyStep(1)
    \/ ST_Xchg(1, SustainOps)
    \/ StartStep(1)
    \/ \E s \in Samplers :
        Tick(s, { MaxGauge }, { BusySample }, SustainTicks) \/ AlertTick(s)

SustainSpec == Init /\ [][SustainNext]_vars

\* One controller registers rules, one registration after another, and starts
\* the monitor; the sampler ticks beside it.
RuleNext ==
    \/ \E kind \in KindNames, cb \in { "returns", "throws" }, thr \in { 1, 2 } :
        SC_Callback(1, kind, cb, thr, RuleOps)
    \/ SC_Threshold(1)
    \/ ST_Xchg(1, RuleOps)
    \/ StartStep(1)
    \/ \E s \in Samplers :
        Tick(s, ProviderValues, { BusySample }, MaxTicks) \/ AlertTick(s)

RuleSpec == Init /\ [][RuleNext]_vars

\* recordLatency and resetMetrics, concurrently.
MonoNext ==
    \E t \in Threads :
        \/ \E x \in Values : RL_LoadMax(t, x, MonoOps)
        \/ RS_Lock(t, MonoOps)
        \/ RecordLatencyStep(t)
        \/ ResetStep(t)

MonoSpec == Init /\ [][MonoNext]_vars

\* getMetrics() beside the counter operations of other threads.
SnapNext ==
    \E t \in Threads :
        \/ \E op \in CounterOps : RecordCounter(t, op, SnapOps)
        \/ GM_Lock(t, SnapOps)
        \/ GetMetricsStep(t)

SnapSpec == Init /\ [][SnapNext]_vars

\* recordLatency, resetMetrics and getMetrics of several threads.
TripleNext ==
    \E t \in Threads :
        \/ \E x \in Values : RL_LoadMax(t, x, TripleOps)
        \/ RS_Lock(t, TripleOps)
        \/ GM_Lock(t, TripleOps)
        \/ RecordLatencyStep(t)
        \/ ResetStep(t)
        \/ GetMetricsStep(t)

TripleSpec == Init /\ [][TripleNext]_vars

\* One controller initializes, registers a memory rule, starts the monitor and
\* resets the metrics; the sampler ticks beside it.
FrameNext ==
    \/ Initialize(1, FrameOps)
    \/ SC_Callback(1, "memory", "returns", 1, FrameOps)
    \/ SC_Threshold(1)
    \/ ST_Xchg(1, FrameOps)
    \/ StartStep(1)
    \/ RS_Lock(1, FrameOps)
    \/ ResetStep(1)
    \/ \E s \in Samplers : Tick(s, { MaxGauge }, { BusySample }, FrameTicks)
    \/ \E s \in Samplers : CK_Compare(s)
    \/ \E s \in Samplers : CK_Call(s)

FrameSpec == Init /\ [][FrameNext]_vars

\* One controller counts events, starts the monitor and stops it; the sampler
\* ticks beside it.
StopNext ==
    \/ \E op \in CounterOps : RecordCounter(1, op, StopOps)
    \/ ST_Xchg(1, StopOps)
    \/ StartStep(1)
    \/ SP_Xchg(1, StopOps)
    \/ StopStep(1)
    \/ \E s \in Samplers : Tick(s, { MaxGauge }, { BusySample }, MaxTicks)

StopSpec == Init /\ [][StopNext]_vars

\* One controller registers latency and memory rules, records a latency,
\* starts the monitor and asks whether a kind is within its threshold; the
\* sampler ticks beside it.
AgreeNext ==
    \/ \E kind \in { "latency", "memory" }, cb \in { "returns", "throws" } :
        SC_Callback(1, kind, cb, 1, AgreeOps)
    \/ SC_Threshold(1)
    \/ RL_LoadMax(1, MaxVal, AgreeOps)
    \/ RecordLatencyStep(1)
    \/ ST_Xchg(1, AgreeOps)
    \/ StartStep(1)
    \/ \E kind \in { "latency", "memory" } : IsWithinThreshold(1, kind, 1, AgreeOps)
    \/ \E s \in Samplers :
        Tick(s, ProviderValues, { BusySample }, AgreeTicks) \/ AlertTick(s)

AgreeSpec == Init /\ [][AgreeNext]_vars

\* One controller registers a memory rule whose callback calls stop(), starts
\* and stops the monitor and destroys it; the sampler ticks beside it.
SelfStopNext ==
    \/ SC_Callback(1, "memory", "stops", 1, SelfStopOps)
    \/ SC_Threshold(1)
    \/ ST_Xchg(1, SelfStopOps)
    \/ StartStep(1)
    \/ SP_Xchg(1, SelfStopOps)
    \/ StopStep(1)
    \/ DT_Xchg(1, SelfStopOps)
    \/ DT_Members(1)
    \/ \E s \in Samplers :
        Tick(s, { MaxGauge }, { BusySample }, MaxTicks) \/ AlertTick(s) \/ SelfStopStep(s)

SelfStopSpec == Init /\ [][SelfStopNext]_vars

\* The gauge writes of several threads beside those of the sampler.
GaugeNext ==
    \/ \E t \in Threads :
        \/ BeginGauge(t, GaugeOps)
        \/ ST_Xchg(t, GaugeOps)
        \/ StartStep(t)
    \/ \E s \in Samplers : Tick(s, ProviderValues, { BusySample }, MaxTicks)

GaugeSpec == Init /\ [][GaugeNext]_vars

\* Gauge writes, recordLatency and the threshold queries of one caller.
QueryNext ==
    \/ BeginGauge(1, QueryOps)
    \/ \E x \in Values : RL_LoadMax(1, x, QueryOps)
    \/ RecordLatencyStep(1)
    \/ \E kind \in KindNames, threshold \in Values :
        IsWithinThreshold(1, kind, threshold, QueryOps)

QuerySpec == Init /\ [][QueryNext]_vars

\* ------------------------------------------------------------------ claims
AllIdle == \A t \in Threads : pc[t] = "idle"

RECURSIVE SumCalls(_, _)
SumCalls(f, n) == IF n = 0 THEN 0 ELSE f[n] + SumCalls(f, n - 1)

AverageIs(sum, n) == RatEq(metrics_["average_latency_ms"], << sum, n >>)

\* C1: with no resetMetrics, under every interleaving of the producer threads
\* each counter equals its initial value 0 plus the number of calls every thread
\* has made of its record<Counter>(): no increment is lost.
C1_NoLostIncrement ==
    \A op \in CounterOps :
        metrics_[NamedCounter(op)] = SumCalls(incCalls[op], NumThreads)

\* Two threads have both incremented one counter, one of them twice.
C1_Witness ==
    /\ incCalls["recordTradeExecuted"][1] >= 2
    /\ incCalls["recordTradeExecuted"][2] >= 1
    /\ metrics_["trades_executed"] = 3

\* C2: one caller, starting from a freshly reset (or new) store: after each
\* recordLatency call the average is the sum of the values recorded so far over
\* their number, and the maximum is the largest value recorded so far.
C2_AverageAndMaxAfterEachCall ==
    (pc[1] = "idle" /\ lat_log.n > 0) =>
        /\ AverageIs(lat_log.sum, lat_log.n)
        /\ metrics_["max_latency_ms"] = SetMax(lat_log.args)

\* C3: with no resetMetrics, once every concurrent recordLatency call has
\* returned, the stored maximum is the largest value passed to any of them.
C3_MaxIsLargestPassed ==
    (AllIdle /\ lat_log.n > 0) => metrics_["max_latency_ms"] = SetMax(lat_log.args)

\* What the compare-and-retry loop does keep, under every interleaving: the
\* largest of the slot's initial 0.0 and the values passed.
MaxIsLargestPassedOrZero ==
    AllIdle => metrics_["max_latency_ms"] = SetMax(lat_log.args \cup { 0 })

\* C4: with no resetMetrics, once K concurrent recordLatency calls have
\* returned, the count is K, the sum is the sum of the K values and the stored
\* average is that sum over K.
C4_NoLostObservation ==
    AllIdle =>
        /\ latency_count_ = lat_log.n
        /\ latency_sum_ = lat_log.sum
        /\ lat_log.n > 0 => AverageIs(lat_log.sum, lat_log.n)

\* Calls that were in progress at the same time have all returned.
C4_Witness ==
    /\ AllIdle
    /\ overlap
    /\ lat_log.n >= 2
    /\ latency_count_ = lat_log.n
    /\ lat_log.sum # 0

AllZero ==
    /\ \A f \in FieldNames : IsZero(f, metrics_[f])
    /\ latency_count_ = 0
    /\ latency_sum_ = 0

\* C9: one caller: when resetMetrics returns, every counter, both gauges, the
\* average, the maximum, the latency sum and the latency count are zero; and
\* after the first recordLatency(x) since a reset the average is x.
C9_ResetZeroesEverything ==
    /\ [][(pc[1] = "rs_unlock" /\ pc'[1] = "idle") => AllZero']_vars
    /\ [](( /\ pc[1] = "idle"
            /\ resetEpoch > 0
            /\ lat_log.n = 1 ) => \A x \in lat_log.args : AverageIs(x, 1))

\* A reset of non-zero counters, gauge, maximum and sum, then one recordLatency.
C9_Witness ==
    /\ pc[1] = "idle"
    /\ resetEpoch > 0
    /\ resetPre["max_latency_ms"] > 0
    /\ lat_log.n = 1
    /\ latency_count_ = 1
    /\ latency_sum_ < 0

\* The kind's value is strictly greater than its threshold.
Over(kind) ==
    IF kind = "latency"
    THEN metrics_["average_latency_ms"][1] >
             threshold_[kind] * metrics_["average_latency_ms"][2]
    ELSE metrics_[KindField(kind)] > threshold_[kind]

\* Sampler s has left checkAlerts (by return or by exception); no setter has
\* written to a rule since it entered, and the three values are what they were.
AfterStableCheck(s) ==
    /\ spc[s] \in { "lock", "catch" }
    /\ chkEntry[s] = RulesAt(metrics_)

\* C5: in one tick, a kind with a callback registered and a positive threshold
\* has its callback invoked exactly once when its value is strictly greater than
\* the threshold, and not at all otherwise.
C5_AlertsFireExactlyWhenOver ==
    \A s \in Samplers :
        AfterStableCheck(s) =>
            \A kind \in KindNames :
                (callback_[kind] # "none" /\ threshold_[kind] > 0) =>
                    fired[s][kind] = IF Over(kind) THEN 1 ELSE 0

\* The same, in the ticks whose registered callbacks all return.
AlertsFireExactlyWhenOverUnlessThrown ==
    \A s \in Samplers :
        (AfterStableCheck(s) /\ \A kind \in KindNames : callback_[kind] \in { "none", "returns" }) =>
            \A kind \in KindNames :
                (callback_[kind] # "none" /\ threshold_[kind] > 0) =>
                    fired[s][kind] = IF Over(kind) THEN 1 ELSE 0

LastTwoCalls(op) ==
    /\ Len(lifeHist) >= 2
    /\ lifeHist[Len(lifeHist)] = op
    /\ lifeHist[Len(lifeHist) - 1] = op

\* This step begins a call of op ("start" or "stop").
BeginsCall(op) ==
    /\ Len(lifeHist') = Len(lifeHist) + 1
    /\ lifeHist'[Len(lifeHist')] = op

\* The step returns at once and leaves the monitor and the store as they were.
IsNoOp ==
    /\ pc' = pc
    /\ UNCHANGED << running_, monitoring_enabled_, monitoring_thread_, spc, joinable,
                    terminated, store, last_cpu_time_, dtor, destroyed >>

\* C6: a start() issued while running_ is set returns at once, changing nothing
\* and spawning nothing; and after two start() calls in a row (no lifecycle calls
\* ever overlapping) exactly one sampler loop is alive.
C6_StartWhileRunningIsNoOp ==
    /\ [][(BeginsCall("start") /\ running_) => IsNoOp]_vars
    /\ []((seqLife /\ AllIdle /\ LastTwoCalls("start")) =>
              Cardinality(LiveSamplers) = 1)

C6_Witness ==
    /\ seqLife
    /\ AllIdle
    /\ LastTwoCalls("start")
    /\ running_
    /\ LiveSamplers = { 1 }
    /\ ~terminated

\* C7: once any stop() has returned, and until a start() acts again, no sampler
\* loop is alive.
C7_StopReturnMeansSamplerExited == quiesced => LiveSamplers = {}

\* C8: a stop() issued while running_ is clear returns at once and changes
\* nothing; and after two stop() calls in a row (no lifecycle calls ever
\* overlapping) running_ is clear and no sampler loop is alive.
C8_StopIsIdempotent ==
    /\ [][(BeginsCall("stop") /\ ~running_) => IsNoOp]_vars
    /\ []((seqLife /\ AllIdle /\ LastTwoCalls("stop")) =>
              (~running_ /\ LiveSamplers = {}))

\* start(), stop(), stop(): the sampler that ran has exited and been joined.
C8_Witness ==
    /\ seqLife
    /\ AllIdle
    /\ lifeHist = << "start", "stop", "stop" >>
    /\ ~running_
    /\ spc[1] = "exited"
    /\ ~joinable[1]

\* C10: no reader, through getMetrics() or through the getters, sees a field
\* the running reset has zeroed and afterwards a field it has yet to zero.
C10_ResetIsAtomicToReaders == ~torn

\* The step in which sampler s invokes the callback of the rule it is at.
Invokes(s) == spc[s] = "call" /\ fired'[s] # fired[s]

\* The callback sampler s is about to invoke.
Invoked(s) == callback_[Kinds[sloc[s].k]]

\* C11: a callback that throws never ends the sampler: after the invocation the
\* sampler is still in its loop and the process has not been terminated.
C11_ThrowingCallbackNeverEndsSampler ==
    [][ \A s \in Samplers :
            (Invokes(s) /\ Invoked(s) # "returns") =>
                (spc'[s] \notin { "unborn", "exited" } /\ ~terminated') ]_vars

\* The same, for the callbacks that throw a std::exception.
StdExceptionNeverEndsSampler ==
    [][ \A s \in Samplers :
            (Invokes(s) /\ Invoked(s) = "throws") =>
                (spc'[s] \notin { "unborn", "exited" } /\ ~terminated') ]_vars

\* C12: a callback that throws a std::exception is treated as if it had returned:
\* the sampler goes on inside checkAlerts with the next kind's rule, or returns
\* from it to the status line and the sleep.
C12_ThrowingCallbackIsContained ==
    [][ \A s \in Samplers :
            (Invokes(s) /\ Invoked(s) = "throws") => spc'[s] \in { "chk", "lock" } ]_vars

\* What C12 is measured against: a callback that returns is followed by the
\* next kind's rule or by the status line.
ReturningCallbackGoesOn ==
    [][ \A s \in Samplers :
            (Invokes(s) /\ Invoked(s) = "returns") => spc'[s] \in { "chk", "lock" } ]_vars

\* C13: when the memory or the CPU query of a tick fails, the gauge the tick
\* writes for it is 0.
C13_FailedQueryWritesZero ==
    [][ \A s \in Samplers :
            /\ (spc[s] = "mem" /\ spc'[s] = "cpu" /\ "memory" \in qfail'[s]) =>
                   metrics_'["memory_usage_mb"] = 0
            /\ (spc[s] = "cpu" /\ spc'[s] = "chk" /\ "cpu" \in qfail'[s]) =>
                   metrics_'["cpu_usage_percentage"] = 0 ]_vars

\* The CPU half of C13, and the rest of the tick: the failed query is followed
\* by alert evaluation.
FailedCpuQueryWritesZero ==
    [][ \A s \in Samplers :
            (spc[s] = "cpu" /\ spc'[s] # "cpu" /\ cpuHist'.cur.read # "ok") =>
                (metrics_'["cpu_usage_percentage"] = 0 /\ spc'[s] = "chk") ]_vars

\* The last two getCurrentCpuUsage calls parsed their samples and the second
\* was made later than the first.
TwoSamples ==
    /\ cpuHist.calls = 2
    /\ cpuHist.prev.read = "ok"
    /\ cpuHist.cur.read = "ok"
    /\ cpuHist.cur.elapsed > 0

\* 100 * (1 - (idle2 - idle1) / (total2 - total1)), exact
ExpectedCpuUsage(s1, s2) ==
    << 100 * ((s2.total - s1.total) - (s2.idle - s1.idle)), s2.total - s1.total >>

\* C16: for two consecutive samples with total2 > total1 the value reported is
\* 100 * (1 - (idle2 - idle1) / (total2 - total1)).
C16_CpuUsageFormula ==
    (TwoSamples /\ cpuHist.cur.total > cpuHist.prev.total) =>
        RatEq(cpuHist.result, ExpectedCpuUsage(cpuHist.prev, cpuHist.cur))

\* What getCurrentCpuUsage computes instead: idle_diff is total_diff, so the
\* value it returns is 0.0 whatever it reads.
CpuUsageIsZero == cpuHist.result[1] = 0 /\ cpuHist.result[2] > 0

\* C17: a sample without a valid delta (total2 <= total1) is reported as 0 and
\* leaves last_cpu_time_ as it was.
C17_InvalidDeltaKeepsBaseline ==
    (TwoSamples /\ cpuHist.cur.total <= cpuHist.prev.total) =>
        (RatIs(cpuHist.result, 0) /\ last_cpu_time_ = cpuHist.base)

\* The part of C17 that holds: the value reported for such a sample is 0.
InvalidDeltaReportsZero ==
    (TwoSamples /\ cpuHist.cur.total <= cpuHist.prev.total) => RatIs(cpuHist.result, 0)

\* C14: a start() issued before initialize() has been called is rejected: it
\* spawns no sampler and does not put the monitor into Running.
C14_UseBeforeInitializeFailsFast ==
    ~initialized => (~running_ /\ monitoring_thread_ = 0 /\ LiveSamplers = {})

\* C15: after initialize/start/stop calls made one after another, the destructor
\* runs stop(): when it completes no sampler loop is running, every sampler
\* thread has been joined and the process has not been terminated.
C15_TeardownNeverLeaksSampler ==
    (seqLife /\ destroyed) =>
        (LiveSamplers = {} /\ ~terminated /\ \A s \in Samplers : ~joinable[s])

\* The monitor was started and never stopped; the destructor has joined the sampler.
C15_Witness ==
    /\ seqLife
    /\ destroyed
    /\ lifeHist = << "start", "stop" >>
    /\ spc[1] = "exited"
    /\ ~joinable[1]

\* Sampler s has left checkAlerts in a tick that found the rules and the values
\* its previous tick had found.
AfterSecondStableCheck(s) ==
    /\ AfterStableCheck(s)
    /\ prevTick[s] # << >>
    /\ prevTick[s].rules = chkEntry[s]

\* C18: a kind whose value stays strictly above its threshold over two
\* consecutive ticks has its callback invoked in both of them.
C18_SustainedBreachRefires ==
    \A s \in Samplers :
        AfterSecondStableCheck(s) =>
            \A kind \in KindNames :
                (callback_[kind] # "none" /\ threshold_[kind] > 0 /\ Over(kind)) =>
                    (prevTick[s].fired[kind] = 1 /\ fired[s][kind] = 1)

\* The same, in the runs whose registered callbacks all return.
SustainedBreachRefiresUnlessThrown ==
    \A s \in Samplers :
        (AfterSecondStableCheck(s)
            /\ \A kind \in KindNames : callback_[kind] \in { "none", "returns" }) =>
            \A kind \in KindNames :
                (callback_[kind] # "none" /\ threshold_[kind] > 0 /\ Over(kind)) =>
                    (prevTick[s].fired[kind] = 1 /\ fired[s][kind] = 1)

\* A throwing callback itself is invoked again in the second tick.
ThrowingCallbackRefires ==
    \A s \in Samplers :
        AfterSecondStableCheck(s) =>
            \A kind \in KindNames :
                (prevTick[s].fired[kind] = 1 /\ callback_[kind] = "throws") =>
                    fired[s][kind] = 1

\* C19: while a kind's threshold is zero or negative its callback is not
\* invoked.
C19_NonPositiveThresholdDisables ==
    [][ \A s \in Samplers : Invokes(s) => threshold_[Kinds[sloc[s].k]] > 0 ]_vars

\* The same, for a checkAlerts no registration overlaps: a kind whose threshold
\* is zero or negative is not invoked, whatever its value.
NonPositiveThresholdDisablesWhenStable ==
    \A s \in Samplers :
        AfterStableCheck(s) =>
            \A kind \in KindNames : threshold_[kind] <= 0 => fired[s][kind] = 0

\* No set<Kind>AlertCallback call is in progress.
NoSetterInProgress == \A t \in Threads : pc[t] # "sc_threshold"

\* C20: once a set<Kind>AlertCallback call has returned, the kind's rule is the
\* one that call passed, whatever was registered before, and the other kinds'
\* rules are the ones last passed for them; a checkAlerts that runs afterwards
\* invokes a kind's callback only when the value is over that threshold.
C20_RegistrationReplacesRule ==
    NoSetterInProgress =>
        /\ \A kind \in KindNames :
               /\ callback_[kind] = lastReg[kind].cb
               /\ threshold_[kind] = lastReg[kind].thr
        /\ \A s \in Samplers :
               AfterStableCheck(s) =>
                   \A kind \in KindNames :
                       /\ fired[s][kind] <= 1
                       /\ fired[s][kind] = 1 =>
                              Exceeds(kind, chkEntry[s].val[kind], lastReg[kind].thr)

\* A memory rule was replaced by one with another callback and another
\* threshold, and a later checkAlerts has invoked the new callback.
C20_Witness ==
    /\ NoSetterInProgress
    /\ lastReg["memory"].replaced
    /\ \E s \in Samplers : AfterStableCheck(s) /\ fired[s]["memory"] = 1

\* No recordLatency and no resetMetrics call is in progress.
LatencyQuiescent == \A t \in Threads : ~InRecordLatency(t) /\ ~InReset(t)

MaxAtLeastAverage ==
    ~RatGT(metrics_["average_latency_ms"], metrics_["max_latency_ms"])

\* C21: whenever no recordLatency and no resetMetrics call is in progress and
\* the latency count is above 0, the stored maximum is at least the stored
\* average, whatever the interleaving of recordLatency and resetMetrics calls.
C21_MaxAtLeastAverage ==
    (LatencyQuiescent /\ latency_count_ > 0) => MaxAtLeastAverage

\* C21, for the calls no reset has overlapped: the maximum is at least the
\* average.
MaxAtLeastAverageUnlessRaced ==
    (LatencyQuiescent /\ latency_count_ > 0 /\ ~dirty) => MaxAtLeastAverage

\* C23: the stored average latency (a fraction with a positive denominator) is
\* at least 0 in every state, whatever values recordLatency is passed.
C23_AverageNeverNegative == metrics_["average_latency_ms"][1] >= 0

\* C23, for arguments that are at least 0: the stored average is at least 0.
AverageNeverNegativeForValidArgs ==
    (\A x \in lat_log.args : x >= 0) => metrics_["average_latency_ms"][1] >= 0

\* C30: no recordLatency caller waits for metrics_mutex_ while its holder is
\* in a logging call.
C30_NoProducerWaitsOnIO ==
    ~\E t, h \in Threads :
        /\ pc[t] = "rl_lock"
        /\ metrics_mutex_ = h
        /\ pc[h] = "rs_log"

\* A step of metrics_.reset(): one of its stores.
ResetStores == \E t \in Threads : pc[t] = "rs_fields" /\ loc'[t].i # loc[t].i

\* C22: no step other than a store of resetMetrics lowers the stored maximum
\* latency, whatever the interleaving of recordLatency calls.
C22_MaxNeverDecreasesBetweenResets ==
    [][~ResetStores => metrics_'["max_latency_ms"] >= metrics_["max_latency_ms"]]_vars

\* After a reset, a recordLatency call passing less than the stored maximum
\* has left its loop without a store.
C22_Witness ==
    /\ resetEpoch > 0
    /\ \A t \in Threads : ~InReset(t)
    /\ \E t \in Threads :
        /\ pc[t] = "rl_lock"
        /\ loc[t].x > 0
        /\ loc[t].x < metrics_["max_latency_ms"]

CounterFields == { NamedCounter(op) : op \in CounterOps }

\* Values a and b of field f are at most one producer operation apart, where
\* the producers are the counter operations.
WithinOneOperation(f, a, b) ==
    IF f \in CounterFields THEN a - b \in { -1, 0, 1 } ELSE a = b

\* C24: for the snapshot getMetrics() returned last there is an instant of the
\* call at which every field was within one producer operation of the value
\* the snapshot has for it.
C24_SnapshotStaleByAtMostOne ==
    lastSnap # NoSnap =>
        \E m \in lastSnap.seen :
            \A i \in 1..Len(FieldOrder) :
                WithinOneOperation(FieldOrder[i], m[FieldOrder[i]], lastSnap.snap[i])

\* C24, field by field: every value of the snapshot is one the field held at
\* an instant of the call.
SnapshotFieldsWereHeld ==
    lastSnap # NoSnap =>
        \A i \in 1..Len(FieldOrder) :
            \E m \in lastSnap.seen : m[FieldOrder[i]] = lastSnap.snap[i]

\* C25: a record<Gauge>Usage(v) call leaves its gauge holding v, whatever the
\* gauge held and whichever calls came before it, and leaves the other gauge
\* as it was.
C25_GaugeLastWriteWins ==
    [][\A f \in GaugeFields :
          IF gaugeLog'[f] # gaugeLog[f]
          THEN metrics_'[f] = gaugeLog'[f].v
          ELSE metrics_'[f] = metrics_[f]]_vars

\* The memory gauge holds the value of the last call, which is less than the
\* value of the call before it, and the CPU gauge holds another value.
C25_Witness ==
    /\ gaugeLog["memory_usage_mb"].written
    /\ gaugeLog["memory_usage_mb"].v < gaugeLog["memory_usage_mb"].prev
    /\ metrics_["memory_usage_mb"] = gaugeLog["memory_usage_mb"].v
    /\ gaugeLog["cpu_usage_percentage"].written
    /\ metrics_["cpu_usage_percentage"] # metrics_["memory_usage_mb"]

\* C26: a counter operation raises the counter it is named after by 1 and
\* leaves every other field of the store and the latency accumulator as they
\* were; and a counter decreases only in a store of resetMetrics.
C26_CounterOperationFrame ==
    [][/\ \A op \in CounterOps, t \in Threads :
            incCalls'[op][t] = incCalls[op][t] + 1 =>
                /\ metrics_' = [ metrics_ EXCEPT ![NamedCounter(op)] = @ + 1 ]
                /\ latency_count_' = latency_count_
                /\ latency_sum_' = latency_sum_
       /\ \A f \in CounterFields : metrics_'[f] < metrics_[f] => ResetStores]_vars

\* recordMessageProcessed() has been called once, with a latency recorded and
\* the memory gauge written, and the other two counters are 0.
C26_Witness ==
    /\ incCalls["recordMessageProcessed"][1] = 1
    /\ metrics_["messages_processed"] = 1
    /\ metrics_["opportunities_detected"] = 0
    /\ metrics_["trades_executed"] = 0
    /\ latency_count_ = 1
    /\ metrics_["memory_usage_mb"] # 0

\* The kind's current value is strictly greater than n.
ValueAbove(kind, n) ==
    IF kind = "latency"
    THEN RatGT(metrics_["average_latency_ms"], n)
    ELSE metrics_[KindField(kind)] > n

\* C27: an is<Kind>WithinThreshold(t) call returns false when the kind's
\* current value is strictly greater than t and true otherwise, and changes
\* neither the store nor the rules nor the lifecycle flags.
C27_WithinThresholdIsAtMost ==
    [][lastWithin' # lastWithin =>
          /\ lastWithin'.result = ~ValueAbove(lastWithin'.kind, lastWithin'.threshold)
          /\ UNCHANGED << store, callback_, threshold_, running_, monitoring_enabled_ >>]_vars

\* isLatencyWithinThreshold(t) has returned true with the average equal to t.
C27_Witness ==
    /\ lastWithin.kind = "latency"
    /\ lastWithin.at = ops
    /\ lastWithin.threshold > 0
    /\ RatIs(metrics_["average_latency_ms"], lastWithin.threshold)
    /\ lastWithin.result

\* The steps of a tick, in the order the claim gives them.
TickOrder == << "memory", "cpu", "alerts", "status", "sleep" >>

IsPrefix(a, b) == Len(a) <= Len(b) /\ \A i \in 1..Len(a) : a[i] = b[i]

\* A tick of sampler s is over: it is back at the loop condition, or has left
\* the loop.
TickOver(s) == spc[s] \in { "loop", "exited" } /\ tickLog[s] # << >>

\* C28: the steps a tick has performed are the memory write, the CPU write,
\* one alert evaluation, the status line and the sleep, in this order, and a
\* tick that is over has performed all five.
C28_TickStepsInOrder ==
    \A s \in Samplers :
        /\ IsPrefix(tickLog[s], TickOrder)
        /\ TickOver(s) => tickLog[s] = TickOrder

\* C28, the order alone: no step of a tick comes before an earlier one of the
\* list or comes twice.
TickStepsNeverOutOfOrder == \A s \in Samplers : IsPrefix(tickLog[s], TickOrder)

\* C28, for the ticks in which no callback was invoked: all five steps.
TickCompleteUnlessCallbackInvoked ==
    \A s \in Samplers :
        (TickOver(s) /\ \A kind \in KindNames : fired[s][kind] = 0) =>
            tickLog[s] = TickOrder

\* stop() of thread t has stored monitoring_enabled_ = false and has not
\* returned.
Signalled(t) == pc[t] \in { "sp_check", "sp_join" }

\* Sampler s begins a tick.
BeginsTick(s) == spc[s] = "loop" /\ spc'[s] = "mem"

\* C29: while a stop() that has signalled cancellation has not returned, no
\* sampler begins a tick; and under fair scheduling every such stop() returns.
C29_CancellationIsBounded ==
    /\ [][(\E t \in Threads : Signalled(t)) => \A s \in Samplers : ~BeginsTick(s)]_vars
    /\ \A t \in Threads : Signalled(t) ~> (pc[t] = "idle")

\* C29, while no two start() / stop() calls have overlapped: no tick begins
\* after the signal.
NoTickAfterSignalUnlessOverlapped ==
    [][(seqLife' /\ \E t \in Threads : Signalled(t)) =>
          \A s \in Samplers : ~BeginsTick(s)]_vars

\* C29, while no two start() / stop() calls have overlapped: the stop() that
\* has signalled returns.
StopReturnsUnlessOverlapped ==
    \A t \in Threads : (Signalled(t) /\ seqLife) ~> (pc[t] = "idle" \/ ~seqLife)


TickCompleteWhenLoggingSucceeds ==
    \A s \in Samplers :
        (TickOver(s) /\ spc[s] = "loop" /\ "log" \notin qfail[s]) => tickLog[s] = TickOrder


\* C32: under every interleaving of start() and stop() calls from several
\* threads, at most one sampler loop is running in any state.
C32_AtMostOneSamplerLoop == Cardinality(LiveSamplers) <= 1

\* What holds of the code: while no two start() / stop() calls have overlapped,
\* at most one sampler loop is running.
AtMostOneSamplerUnlessOverlapped == seqLife => Cardinality(LiveSamplers) <= 1

\* C34: whenever no start() or stop() call is in progress, running_ is true
\* exactly when a sampler thread exists that has not been joined; in
\* particular running_ is never false while a sampler loop is alive.
C34_RunningIffSamplerUnjoined ==
    (\A t \in Threads : ~InStart(t) /\ ~InStop(t)) =>
        /\ running_ <=> (\E s \in Samplers : joinable[s])
        /\ ~running_ => LiveSamplers = {}

\* What holds of the code: the same, while no two start() / stop() calls have
\* overlapped.
RunningIffSamplerUnjoinedUnlessOverlapped == seqLife => C34_RunningIffSamplerUnjoined


\* The stored average, sum and count match: all three are zero, or the count
\* is positive and the average is the sum over the count.
MatchedTriple ==
    \/ /\ latency_count_ = 0
       /\ latency_sum_ = 0
       /\ RatIs(metrics_["average_latency_ms"], 0)
    \/ /\ latency_count_ > 0
       /\ RatEq(metrics_["average_latency_ms"], << latency_sum_, latency_count_ >>)

\* C33: whenever metrics_mutex_ is not held, the stored average, sum and
\* count form a matched triple, under any interleaving of recordLatency,
\* resetMetrics and getMetrics.
C33_MatchedTripleWhenUnlocked == metrics_mutex_ = 0 => MatchedTriple

\* The mutex is free after a reset, with calls that overlapped, and the triple
\* is a matched one with a positive count and a sum that is not zero.
C33_Witness ==
    /\ metrics_mutex_ = 0
    /\ resetEpoch > 0
    /\ latency_count_ > 0
    /\ latency_sum_ # 0
    /\ MatchedTriple
    /\ overlap
    /\ \E t \in Threads : pc[t] # "idle"


\* C35: when set<Kind>AlertCallback runs beside a sampler tick, checkAlerts
\* invokes a callback only after judging the value against the threshold that
\* callback was registered with.
C35_CallbackJudgedByItsOwnThreshold ==
    [][\A s \in Samplers :
           Invokes(s) =>
               << Invoked(s), sloc[s].judged >> \in lastReg[Kinds[sloc[s].k]].pairs]_vars

\* What holds of the code: a callback invoked while no setter is between its
\* two writes was judged against its own threshold, if no setter wrote since
\* checkAlerts was entered.
CallbackJudgedByItsOwnThresholdWhenStable ==
    [][\A s \in Samplers :
           (Invokes(s) /\ NoSetterInProgress /\ chkEntry[s].writes = RulesAt(metrics_).writes) =>
               << Invoked(s), sloc[s].judged >> \in lastReg[Kinds[sloc[s].k]].pairs]_vars


\* The calls of h that found the monitor stopped: a start() that is the first
\* call or follows a stop().
EffectiveStarts(h) ==
    { i \in 1..Len(h) : h[i] = "start" /\ (i = 1 \/ h[i - 1] = "stop") }

\* C36: after any sequence of start() and stop() calls, one after another, the
\* monitor is Running exactly when the last call was start(): then the flags
\* are set and the one sampler loop alive is the thread monitoring_thread_
\* owns; otherwise the flags are clear and every sampler spawned has exited
\* and been joined.  Each start() that found the monitor stopped spawned
\* exactly one sampler.
C36_MonitorRestarts ==
    (seqLife /\ AllIdle) =>
        /\ ~terminated
        /\ Cardinality(Samplers \ Unborn) = Cardinality(EffectiveStarts(lifeHist))
        /\ IF lifeHist # << >> /\ lifeHist[Len(lifeHist)] = "start"
           THEN /\ running_ /\ monitoring_enabled_
                /\ LiveSamplers = { monitoring_thread_ }
                /\ \A s \in Samplers : joinable[s] <=> s = monitoring_thread_
           ELSE /\ ~running_ /\ ~monitoring_enabled_
                /\ LiveSamplers = {}
                /\ \A s \in Samplers : ~joinable[s]

\* start(), stop(), start(): the first sampler has exited and been joined and
\* a second one is running.
C36_Witness ==
    /\ seqLife
    /\ AllIdle
    /\ lifeHist = << "start", "stop", "start" >>
    /\ running_
    /\ spc[1] = "exited" /\ ~joinable[1]
    /\ LiveSamplers = { 2 } /\ monitoring_thread_ = 2

\* start(), stop(), start(), stop(): the second sampler has been joined too.
RestartedAndStoppedAgain ==
    /\ seqLife
    /\ AllIdle
    /\ lifeHist = << "start", "stop", "start", "stop" >>
    /\ spc[2] = "exited" /\ ~joinable[2]


\* This step is one of a resetMetrics() call.
ResetActs ==
    \E t \in Threads :
        /\ InReset(t) \/ InReset(t)'
        /\ << pc[t], loc[t] >>' # << pc[t], loc[t] >>

\* C37: no step of resetMetrics() changes the lifecycle state, the sampling
\* interval, a callback, a threshold or the CPU baseline, and the call leaves
\* metrics_mutex_ unlocked; so a tick that runs after a reset still invokes
\* the callback of every rule whose value is over its threshold.
C37_ResetChangesOnlyMetrics ==
    /\ [][ResetActs =>
            UNCHANGED << running_, monitoring_enabled_, monitoring_thread_, joinable,
                         spc, monitoring_interval_ms_, callback_, threshold_,
                         last_cpu_time_ >>]_vars
    /\ [](\A t \in Threads : pc[t] = "idle" => metrics_mutex_ # t)
    /\ [](\A s \in Samplers :
            (resetEpoch > 0 /\ AfterStableCheck(s)) =>
                \A kind \in KindNames :
                    (callback_[kind] # "none" /\ threshold_[kind] > 0) =>
                        fired[s][kind] = IF Over(kind) THEN 1 ELSE 0)

\* A reset has returned beside a running sampler whose tick had set the CPU
\* baseline and the memory gauge: the gauge is zero again, the rule, the
\* interval and the baseline are as they were, and the sampler's second tick
\* has invoked the callback.
C37_Witness ==
    /\ resetEpoch = 1 /\ pc[1] = "idle"
    /\ running_ /\ monitoring_enabled_ /\ monitoring_thread_ = 1
    /\ callback_["memory"] = "returns" /\ threshold_["memory"] = 1
    /\ monitoring_interval_ms_ = 100
    /\ last_cpu_time_ = 1
    /\ ticks = 2
    /\ metrics_["cpu_usage_percentage"] = 0 /\ metrics_["memory_usage_mb"] = MaxGauge
    /\ AfterStableCheck(1)
    /\ fired[1]["memory"] = 1
    /\ prevTick[1] # << >>


\* This step is one of a stop() call.
StopActs == BeginsCall("stop") \/ \E t \in Threads : InStop(t) /\ pc'[t] # pc[t]

\* C38: no step of stop() changes a counter, a gauge or a latency value, and
\* once stop() has returned no step of the sampler changes one either, so the
\* values read after stop() are those the sampler left when it exited; the
\* counters still hold the number of events recorded.
C38_StopChangesOnlyLifecycle ==
    /\ [][StopActs => UNCHANGED << metrics_, latency_count_, latency_sum_ >>]_vars
    /\ [][(quiesced /\ spc' # spc) =>
            UNCHANGED << metrics_, latency_count_, latency_sum_ >>]_vars
    /\ [](quiesced =>
            \A op \in CounterOps :
                metrics_[NamedCounter(op)] = SumCalls(incCalls[op], NumThreads))

\* An event was counted and the sampler ticked; stop() has returned, the
\* sampler has exited and been joined, and the counter and the memory gauge
\* hold what they held then.
C38_Witness ==
    /\ quiesced
    /\ pc[1] = "idle"
    /\ lifeHist = << "start", "stop" >>
    /\ spc[1] = "exited" /\ ~joinable[1]
    /\ ticks = 1
    /\ metrics_["memory_usage_mb"] = MaxGauge
    /\ \E op \in CounterOps : metrics_[NamedCounter(op)] = 2


\* Sampler s has left checkAlerts with the rules and values as it found them,
\* and the last is<Kind>WithinThreshold call asked about kind with the
\* threshold of its rule and loaded the value kind has now.
AskedAboutCheckedValue(s, kind) ==
    /\ AfterStableCheck(s)
    /\ callback_[kind] # "none" /\ threshold_[kind] > 0
    /\ lastWithin.kind = kind
    /\ lastWithin.threshold = threshold_[kind]
    /\ lastWithin.current = metrics_[KindField(kind)]

\* C39: for a kind with a callback registered and a positive threshold t, and
\* a value that does not change in between, checkAlerts invokes the callback
\* exactly when is<Kind>WithinThreshold(t) returns false.
C39_AlertAgreesWithQuery ==
    \A s \in Samplers, kind \in KindNames :
        AskedAboutCheckedValue(s, kind) => (fired[s][kind] = 1 <=> ~lastWithin.result)

\* What holds of the code: the same, in the ticks whose registered callbacks
\* all return.
AlertAgreesWithQueryUnlessThrown ==
    \A s \in Samplers, kind \in KindNames :
        (AskedAboutCheckedValue(s, kind)
            /\ \A other \in KindNames : callback_[other] \in { "none", "returns" }) =>
                (fired[s][kind] = 1 <=> ~lastWithin.result)

\* The boundary: the memory gauge equals the threshold, the query has returned
\* true and checkAlerts has not invoked the callback.
AgreeOnBoundary ==
    \E s \in Samplers :
        /\ AskedAboutCheckedValue(s, "memory")
        /\ metrics_["memory_usage_mb"] = threshold_["memory"]
        /\ lastWithin.result
        /\ fired[s]["memory"] = 0


\* A callback that calls stop() has been invoked in sampler s's last tick.
StoppedFromCallback(s) ==
    \E kind \in KindNames : callback_[kind] = "stops" /\ fired[s][kind] > 0

\* C40: after a stop() issued from inside an alert callback, on the sampler's
\* own thread, the loop exits and the thread ends up joined: when the monitor
\* is destroyed after that sampler has exited, no thread is left joinable and
\* the teardown completes without std::terminate().
C40_SelfStopNeitherHangsNorLeaks ==
    [][(/\ ~destroyed /\ destroyed'
        /\ \E s \in Samplers : StoppedFromCallback(s) /\ spc[s] = "exited") =>
            /\ ~terminated'
            /\ \A s \in Samplers : ~joinable[s]]_vars

\* What the code does keep: the stop() called from the callback does not hang;
\* once it is through, the flags are clear.
SelfStopClearsFlags ==
    \A s \in Samplers :
        (StoppedFromCallback(s) /\ spc[s] \in { "catch", "loop", "exited" }
            /\ pc[1] = "idle" /\ ~terminated) =>
                (lifeHist[Len(lifeHist)] = "stop" => (~running_ /\ ~monitoring_enabled_))

====
